---- MODULE Spec2Model ----
(***************************************************************************)
(* A model of the reactive core of neurlang/bubblegum: the command         *)
(* executor (commands.go), the message channel it shares with the program  *)
(* runtime, the runtime's update and redraw path and its input handlers    *)
(* (program.go), and the terminal grid with its ANSI parser and its Diff   *)
(* (parser.go, grid.go).                                                   *)
(*                                                                         *)
(* Goroutines are modelled as entries of the bag `tasks`; every            *)
(* blocking point of the code (a select, a mutex Lock, WaitGroup.Wait) is  *)
(* the guard of an action.                                                 *)
(***************************************************************************)
EXTENDS Naturals, Integers, Sequences, FiniteSets, Bags, TLC

(***************************************************************************)
(* Bounds of the model.                                                    *)
(***************************************************************************)
\* capacity of the message channel handed to NewCommandExecutor
ChanCap == 2
\* number of goroutines the commands handed to Execute may start in all
MaxTasks == 5
\* the same number in the fair specification
LiveTasks == 3
\* the same number in the specification of the faulting timer
TimerTasks == 3
\* number of calls of Program.Quit
MaxQuits == 2
\* number of goroutines the commands returned by Update may start in all
ProgTasks == 2
\* number of messages and input events that reach the program from outside
MaxMsgs == 2
\* number of messages sent to the program, by Program.Send or by the tick of
\* a recurring timer, while Run is followed from its start to its return
RunMsgs == 1
\* number of key, resize, button and axis events
MaxEvents == 3

(***************************************************************************)
(* Messages.                                                               *)
(***************************************************************************)
NilMsg == "nil"
\* the model NewProgram was given; later snapshots are numbered by the
\* Update call that returned them
InitialModel == 0
ErrorMsg == "ErrorMsg"
quitMsg == "quitMsg"
TickMsg == "tick"
SentMsg == "sent"
\* a value of the exported type QuitMsg of lib/messages.go
QuitMsg == "QuitMsg{}"
\* the internal markers a command body returns for Batch and Every
batchMsg == "batchMsg"
everyMsg == "everyMsg"
\* not a message: the body of the command panicked
Panic == "panic"

(***************************************************************************)
(* Commands.  A Cmd is a func() Msg; a command is modelled by what its     *)
(* body does when it is invoked.                                           *)
(***************************************************************************)
NilCmd == [kind |-> "nil"]
Leaf(m) == [kind |-> "leaf", msg |-> m]
PanicCmd == [kind |-> "panic"]
Batch(cs) == [kind |-> "batch", cmds |-> cs]
\* Every(d, fn): fn is modelled by the message it returns, d by whether
\* time.NewTicker accepts it (d > 0) or panics (d <= 0)
Every(m) == [kind |-> "every", fn |-> m, d |-> "positive"]
EveryNonPositive(m) == [kind |-> "every", fn |-> m, d |-> "nonpositive"]

\* the commands callers hand to Execute
CmdSet ==
  { NilCmd,
    Leaf("a"),
    Leaf(NilMsg),
    PanicCmd,
    Every(TickMsg),
    Batch(<<Leaf("b"), NilCmd, Batch(<<Leaf("c")>>)>>) }

VARIABLES
  msgChan,      \* the buffered channel: a sequence of at most ChanCap messages
  ctxDone,      \* the root context has been cancelled
  wg,           \* CommandExecutor.wg: the WaitGroup counter
  mu,           \* CommandExecutor.mu: 0 when free, else the holder
  timers,       \* CommandExecutor.timers: the registered tickers
  timerCancelled, \* the tickers whose own cancel function has been called
  tickers,      \* the number of tickers created so far
  tasks,        \* the bag of running goroutines started by Execute and startTimer
  shutdown,     \* where the caller of Shutdown is
  sendPc,       \* where the caller of Program.Send is
  crashed,      \* an unrecovered panic has ended the process
  executed,     \* history: the commands callers passed to Execute
  invoked,      \* history: the commands whose body has been invoked
  consumed      \* history: the command results received from the channel

execVars == <<msgChan, ctxDone, wg, mu, timers, timerCancelled, tickers, tasks,
              shutdown, sendPc, crashed, executed, invoked, consumed>>

VARIABLES
  pmu,          \* Program.mu: Unlocked, or the goroutine holding it
  rpc,          \* where the event-loop thread is inside Program.Redraw
  pending,      \* messagesToProcess of the Redraw call in progress
  motionPending,\* Program.motionPending
  hpc,          \* where the goroutine calling Program.handleMessage is
  hmsg,         \* the message that call was given
  hcmd,         \* the command its Update returned, until it is executed
  updating,     \* the goroutines that are inside a call of model.Update
  updates,      \* history: the messages passed to Update whose call returned
  displayExit,  \* display.Exit() has been called: the event loop is over
  injected,     \* history: the messages and events that came from outside
  model         \* Program.model: the snapshot Update returned last

progVars == <<pmu, rpc, pending, motionPending, hpc, hmsg, hcmd, updating,
              updates,
              displayExit, injected, model>>

VARIABLES
  runPc,        \* where the caller of Program.Run is
  options,      \* Program.options
  resources,    \* what Run has created and not yet destroyed
  runErr,       \* the error Run returned, "none" when nil
  initCalled,   \* model.Init has been called
  initFault,    \* that call panicked
  quitClosed,   \* Program.quitChan has been closed
  quitCalls     \* history: the number of calls of Program.Quit

runVars == <<runPc, options, resources, runErr, initCalled, initFault,
             quitClosed, quitCalls>>

VARIABLES
  dequeued,     \* history: the messages Redraw received from the channel
  sawQuit,      \* history: the draining loop has received a quit message
  tickFault,    \* history: an Update call of the current tick has panicked
  view,         \* the local variable view of the Redraw call in progress
  viewFault     \* history: a View call has panicked

tickVars == <<dequeued, sawQuit, tickFault, view, viewFault>>

VARIABLES
  hadMessages,  \* the local variable hadMessages of the Redraw call in progress
  processedMotion, \* its local variable processedMotion
  lastView,     \* Program.lastView
  lastRender    \* Program.lastRender: NeverRendered, or Rendered once it is set

frameVars == <<hadMessages, processedMotion, lastView, lastRender>>

VARIABLES
  pointer,      \* the cell under Program.pointerX, pointerY
  lastCell,     \* Program.lastCellX, lastCellY; NoCell while cellPosValid is false
  pendingMotion,\* Program.pendingMotionX, pendingMotionY
  epc,          \* where the event-loop thread is inside an input handler
  emsg,         \* the message that handler is sending
  events,       \* history: the number of key, resize, button and axis events
  motions,      \* history: the cells of the motion events, in their order
  redrawScheduled, \* Program.redrawScheduled
  redrawNeeded  \* the window has a redraw requested that no tick has served

inputVars == <<pointer, lastCell, pendingMotion, epc, emsg, events, motions,
               redrawScheduled, redrawNeeded>>

VARIABLES
  tg,           \* the receiver of TerminalGrid.Diff
  other,        \* its argument
  regions,      \* what Diff returned
  diffPc,       \* where the caller of Diff is
  runes,        \* the runes of the string given to ParseANSI
  ri,           \* the index i of ansiParser.parse, counted from 1
  parser,       \* the ansiParser, its grid included
  parsePc,      \* where the caller of ParseANSI is
  size,         \* the width and height given to ParseANSI
  ti            \* the textinput.Model, nil while there is none

pureVars == <<tg, other, regions, diffPc, runes, ri, parser, parsePc, size,
              ti>>

vars == <<execVars, progVars, runVars, tickVars, frameVars, inputVars, pureVars>>

\* what Run creates, in this order
AllResources == { "display", "window", "widget", "renderer", "executor" }

\* the options NewProgram starts from
DefaultOptions ==
  [ family |-> "Monospace", fontSize |-> 12, width |-> 800, height |-> 600,
    title |-> "BubbleGum Application", fps |-> 60 ]

\* the options the functional options of NewProgram can leave behind
OptionSet ==
  [ family : {"", "Monospace"}, fontSize : {0, 12}, width : {0, 800},
    height : {0 - 1, 600}, title : {"", "t"}, fps : {0 - 1, 0, 60} ]

\* the value of view before View has been called
NoView == "unset"

\* the zero time.Time Program.lastRender starts with, and any later time
NeverRendered == "zero"
Rendered == "set"

\* the cells the pointer can be over; NoCell before the first motion event
Cells == { "c1", "c2" }
NoCell == "none"
\* cells are told apart by nothing but their names: the one the pointer
\* enters first is called c1
FirstCell == "c1"

\* a nil *TerminalGrid
NilGrid == [nil |-> TRUE]

\* the goroutines that take Program.mu
EventLoop == "eventloop"
Handler == "handler"
\* Program.mu held by nobody
Unlocked == "unlocked"

\* the holder of CommandExecutor.mu while Shutdown has it
ShutdownHolder == 0 - 1

(***************************************************************************)
(* Execute / ExecuteBatch / deliverMessage as operators on the state they  *)
(* touch.                                                                  *)
(***************************************************************************)
\* the goroutine Execute starts: it is about to run (or is running) cmd()
NewTask(c) == [pc |-> "body", cmd |-> c, msg |-> NilMsg, late |-> FALSE, id |-> 0]

\* the goroutine startTimer starts for ticker k: it is at the select of its loop
NewTimerTask(c, k) == [pc |-> "loop", cmd |-> c, msg |-> NilMsg, late |-> FALSE, id |-> k]

Put(ts, r) == ts (+) SetToBag({r})
Take(ts, r) == ts (-) SetToBag({r})

\* a slip: the nil check is missing
Execute_NoNilCheck(c, w, ts) ==
  [wg |-> w + 1, tasks |-> Put(ts, NewTask(c))]

\* Execute(cmd): nil is a no-op; otherwise wg.Add(1) and go func()
Execute(c, w, ts) ==
  IF c.kind = "nil"
  THEN [wg |-> w, tasks |-> ts]
  ELSE [wg |-> w + 1, tasks |-> Put(ts, NewTask(c))]

\* a slip: the loop returns at the first nil entry instead of skipping it
RECURSIVE ExecuteBatch_StopsAtNil(_, _, _)
ExecuteBatch_StopsAtNil(cmds, w, ts) ==
  IF cmds = <<>> \/ Head(cmds).kind = "nil"
  THEN [wg |-> w, tasks |-> ts]
  ELSE ExecuteBatch_StopsAtNil(Tail(cmds), Execute(Head(cmds), w, ts).wg,
                               Execute(Head(cmds), w, ts).tasks)

\* ExecuteBatch: for _, cmd := range cmds { if cmd != nil { ce.Execute(cmd) } }
RECURSIVE ExecuteBatch(_, _, _)
ExecuteBatch(cmds, w, ts) ==
  IF cmds = <<>>
  THEN [wg |-> w, tasks |-> ts]
  ELSE LET o == IF Head(cmds).kind # "nil"
                THEN Execute(Head(cmds), w, ts)
                ELSE [wg |-> w, tasks |-> ts]
       IN ExecuteBatch(Tail(cmds), o.wg, o.tasks)

\* a slip: the select has no case for ce.ctx.Done()
deliverMessage_NoCtx(m, ch, done) ==
  IF m = NilMsg
  THEN {ch}
  ELSE IF Len(ch) < ChanCap THEN {Append(ch, m)} ELSE {}

\* the select of deliverMessage: the set of ways it can complete
\* (empty when it blocks); a nil message returns at once
deliverMessage(m, ch, done) ==
  IF m = NilMsg
  THEN {ch}
  ELSE (IF Len(ch) < ChanCap THEN {Append(ch, m)} ELSE {})
       \cup (IF done THEN {ch} ELSE {})

\* the select of Program.Send (no nil check)
Send(m, ch, done) ==
  (IF Len(ch) < ChanCap THEN {Append(ch, m)} ELSE {})
  \cup (IF done THEN {ch} ELSE {})

\* a slip: the goroutine has no deferred recover (as in lib/commands.go),
\* so the panic ends the process
Recover_Missing(r, done) ==
  [task |-> r, crashed |-> TRUE]

\* the deferred recover of Execute's goroutine: the panic becomes an
\* ErrorMsg that the same goroutine hands to deliverMessage
Recover(r, done) ==
  [task |-> [r EXCEPT !.pc = "deliver", !.msg = ErrorMsg, !.late = done],
   crashed |-> FALSE]

\* msg := cmd(): the message the body returns; Panic when the body
\* panics (calling a nil Cmd panics too)
cmdResult(c) ==
  CASE c.kind = "leaf" -> c.msg
    [] c.kind = "batch" -> batchMsg
    [] c.kind = "every" -> everyMsg
    [] OTHER -> Panic

\* switch m := msg.(type): where the goroutine goes with the result
typeSwitch(m) ==
  CASE m = batchMsg -> "batch"
    [] m = everyMsg -> "startTimer"
    [] OTHER -> "deliver"

\* a slip: the switch evaluates cmd() a second time
RunBody_CallsTwice(r, done) ==
  IF cmdResult(r.cmd) = Panic
  THEN [task |-> Recover(r, done).task, crashed |-> Recover(r, done).crashed, calls |-> 1]
  ELSE [task |-> [r EXCEPT !.pc = typeSwitch(cmdResult(r.cmd)),
                           !.msg = cmdResult(r.cmd),
                           !.late = done /\ typeSwitch(cmdResult(r.cmd)) = "deliver"],
        crashed |-> FALSE,
        calls |-> 2]

\* the body of Execute's goroutine up to the call the type switch selects:
\* cmd() is called once
RunBody(r, done) ==
  IF cmdResult(r.cmd) = Panic
  THEN [task |-> Recover(r, done).task, crashed |-> Recover(r, done).crashed, calls |-> 1]
  ELSE [task |-> [r EXCEPT !.pc = typeSwitch(cmdResult(r.cmd)),
                           !.msg = cmdResult(r.cmd),
                           !.late = done /\ typeSwitch(cmdResult(r.cmd)) = "deliver"],
        crashed |-> FALSE,
        calls |-> 1]

(***************************************************************************)
(* Init: the state after NewProgram and NewCommandExecutor(ctx, msgChan).   *)
(***************************************************************************)
InitRest ==
  /\ msgChan = <<>>
  /\ ctxDone = FALSE
  /\ wg = 0
  /\ mu = 0
  /\ timers = {}
  /\ timerCancelled = {}
  /\ tickers = 0
  /\ tasks = EmptyBag
  /\ shutdown = "idle"
  /\ sendPc = "idle"
  /\ crashed = FALSE
  /\ executed = EmptyBag
  /\ invoked = EmptyBag
  /\ consumed = EmptyBag
  \* NewProgram, and Run up to window.DisplayRun
  /\ pmu = Unlocked
  /\ rpc = "idle"
  /\ pending = <<>>
  /\ motionPending = FALSE
  /\ hpc = "idle"
  /\ hmsg = NilMsg
  /\ hcmd = NilCmd
  /\ updating = {}
  /\ updates = <<>>
  /\ displayExit = FALSE
  /\ injected = 0
  /\ model = InitialModel
  /\ runErr = "none"
  /\ quitClosed = FALSE
  /\ quitCalls = 0
  /\ dequeued = <<>>
  /\ sawQuit = FALSE
  /\ tickFault = FALSE
  /\ view = NoView
  /\ viewFault = FALSE
  /\ hadMessages = FALSE
  /\ processedMotion = FALSE
  /\ lastView = ""
  /\ lastRender = NeverRendered
  /\ pointer = NoCell
  /\ lastCell = NoCell
  /\ pendingMotion = NoCell
  /\ epc = "idle"
  /\ emsg = NilMsg
  /\ events = 0
  /\ motions = <<>>
  /\ redrawScheduled = FALSE
  /\ redrawNeeded = FALSE

\* no call of Diff or ParseANSI is in progress
PureIdle ==
  /\ tg = NilGrid
  /\ other = NilGrid
  /\ regions = <<>>
  /\ diffPc = "idle"
  /\ runes = <<>>
  /\ ri = 0
  /\ parser = [nil |-> TRUE]
  /\ parsePc = "idle"
  /\ size = <<0, 0>>
  /\ ti = [nil |-> TRUE]

\* the program inside window.DisplayRun, started with the default options
\* and a model whose Init returned no command
Init ==
  /\ InitRest
  /\ PureIdle
  /\ runPc = "loop"
  /\ options = DefaultOptions
  /\ resources = AllResources
  /\ initCalled = TRUE
  /\ initFault = FALSE

\* the state after NewProgram(model, opts...)
RunInit ==
  /\ InitRest
  /\ PureIdle
  /\ runPc = "start"
  /\ options \in OptionSet
  /\ resources = {}
  /\ initCalled = FALSE
  /\ initFault = FALSE

\* the goroutines that are running
Live == BagToSet(tasks)

(***************************************************************************)
(* The goroutine of Execute.                                               *)
(***************************************************************************)
\* cmd() returns (or panics); the type switch picks what follows
BodyReturn(r) ==
  /\ ~crashed
  /\ r \in Live
  /\ r.pc = "body"
  /\ LET o == RunBody(r, ctxDone) IN
       /\ tasks' = Put(Take(tasks, r), o.task)
       /\ crashed' = o.crashed
  /\ invoked' = invoked (+) [c \in {r.cmd} |-> RunBody(r, ctxDone).calls]
  /\ UNCHANGED <<msgChan, ctxDone, wg, mu, timers, timerCancelled, tickers,
                 shutdown, sendPc, executed, consumed>>
  /\ UNCHANGED <<progVars, runVars, frameVars, inputVars, pureVars, tickVars>>

\* default: ce.deliverMessage(msg), then the deferred wg.Done()
Deliver(r) ==
  /\ ~crashed
  /\ r \in Live
  /\ r.pc = "deliver"
  /\ msgChan' \in deliverMessage(r.msg, msgChan, ctxDone)
  /\ tasks' = Take(tasks, r)
  /\ wg' = wg - 1
  /\ UNCHANGED <<ctxDone, mu, timers, timerCancelled, tickers, shutdown,
                 sendPc, crashed, executed, invoked, consumed>>
  /\ UNCHANGED <<progVars, runVars, frameVars, inputVars, pureVars, tickVars>>

\* case batchMsg: ce.ExecuteBatch(m.cmds), then the deferred wg.Done()
BatchRun(r) ==
  /\ ~crashed
  /\ r \in Live
  /\ r.pc = "batch"
  /\ LET o == ExecuteBatch(r.cmd.cmds, wg, Take(tasks, r)) IN
       /\ wg' = o.wg - 1
       /\ tasks' = o.tasks
  /\ UNCHANGED <<msgChan, ctxDone, mu, timers, timerCancelled, tickers,
                 shutdown, sendPc, crashed, executed, invoked, consumed>>
  /\ UNCHANGED <<progVars, runVars, frameVars, inputVars, pureVars, tickVars>>

(***************************************************************************)
(* startTimer and the timer goroutine.                                     *)
(***************************************************************************)
\* a slip: startTimer does not wg.Add(1) for the timer goroutine
startTimerWg_NoAdd(w) == w - 1

\* what startTimer does to the WaitGroup for the goroutine it starts,
\* followed by the deferred wg.Done() of the goroutine that called it
startTimerWg(w) == (w + 1) - 1

\* case everyMsg: ce.startTimer(m.duration, m.fn), up to ce.mu.Unlock():
\* time.NewTicker(d) panics for d <= 0, and the deferred recover of
\* Execute's goroutine takes over; otherwise Lock; ce.timers[ticker] =
\* cancel; Unlock.  Tickers are numbered in the order they are registered.
StartTimer(r) ==
  /\ ~crashed
  /\ r \in Live
  /\ r.pc = "startTimer"
  /\ IF r.cmd.d = "nonpositive"
     THEN /\ tasks' = Put(Take(tasks, r), Recover(r, ctxDone).task)
          /\ crashed' = Recover(r, ctxDone).crashed
          /\ UNCHANGED <<tickers, timers>>
     ELSE /\ mu = 0
          /\ tickers' = tickers + 1
          /\ timers' = timers \cup {tickers + 1}
          /\ tasks' = Put(Take(tasks, r),
                          [r EXCEPT !.pc = "timerGo", !.id = tickers + 1])
          /\ UNCHANGED crashed
  /\ UNCHANGED <<msgChan, ctxDone, wg, mu, timerCancelled, shutdown, sendPc,
                 executed, invoked, consumed>>
  /\ UNCHANGED <<progVars, runVars, frameVars, inputVars, pureVars, tickVars>>

\* the rest of startTimer: wg.Add(1); go func(); return, and the deferred
\* wg.Done() of the goroutine that called it
StartTimerGo(r) ==
  /\ ~crashed
  /\ r \in Live
  /\ r.pc = "timerGo"
  /\ wg' = startTimerWg(wg)
  /\ tasks' = Put(Take(tasks, r), NewTimerTask(r.cmd, r.id))
  /\ UNCHANGED <<msgChan, ctxDone, mu, timers, timerCancelled, tickers,
                 shutdown, sendPc, crashed, executed, invoked, consumed>>
  /\ UNCHANGED <<progVars, runVars, frameVars, inputVars, pureVars, tickVars>>

\* case t := <-ticker.C: msg := fn(t).  The timer goroutine has no recover:
\* a panic of fn ends the process.
TimerTick(r) ==
  /\ ~crashed
  /\ r \in Live
  /\ r.pc = "loop"
  /\ crashed' = (r.cmd.fn = Panic)
  /\ tasks' = IF r.cmd.fn = Panic THEN tasks
             ELSE Put(Take(tasks, r), [r EXCEPT !.pc = "tdeliver", !.msg = r.cmd.fn])
  /\ UNCHANGED <<msgChan, ctxDone, wg, mu, timers, timerCancelled, tickers,
                 shutdown, sendPc, executed, invoked, consumed>>
  /\ UNCHANGED <<progVars, runVars, frameVars, inputVars, pureVars, tickVars>>

\* ce.deliverMessage(msg) inside the timer loop
TimerDeliver(r) ==
  /\ ~crashed
  /\ r \in Live
  /\ r.pc = "tdeliver"
  /\ msgChan' \in deliverMessage(r.msg, msgChan, ctxDone)
  /\ tasks' = Put(Take(tasks, r), [r EXCEPT !.pc = "loop", !.msg = NilMsg])
  /\ UNCHANGED <<ctxDone, wg, mu, timers, timerCancelled, tickers, shutdown,
                 sendPc, crashed, executed, invoked, consumed>>
  /\ UNCHANGED <<progVars, runVars, frameVars, inputVars, pureVars, tickVars>>

\* case <-timerCtx.Done() / case <-ce.ctx.Done(): return
TimerExit(r) ==
  /\ ~crashed
  /\ r \in Live
  /\ r.pc = "loop"
  /\ (r.id \in timerCancelled \/ ctxDone)
  /\ tasks' = Put(Take(tasks, r), [r EXCEPT !.pc = "unregister"])
  /\ UNCHANGED <<msgChan, ctxDone, wg, mu, timers, timerCancelled, tickers,
                 shutdown, sendPc, crashed, executed, invoked, consumed>>
  /\ UNCHANGED <<progVars, runVars, frameVars, inputVars, pureVars, tickVars>>

\* the timer goroutine leaving its ticker in the registry
deleteTimer_Skipped(ts, k) == ts

\* delete(ce.timers, ticker)
deleteTimer(ts, k) == ts \ {k}

\* the first deferred call: Lock; delete(ce.timers, ticker); Unlock
TimerUnregister(r) ==
  /\ ~crashed
  /\ r \in Live
  /\ r.pc = "unregister"
  /\ mu = 0
  /\ timers' = deleteTimer(timers, r.id)
  /\ tasks' = Put(Take(tasks, r), [r EXCEPT !.pc = "stop"])
  /\ UNCHANGED <<msgChan, ctxDone, wg, mu, timerCancelled, tickers, shutdown,
                 sendPc, crashed, executed, invoked, consumed>>
  /\ UNCHANGED <<progVars, runVars, frameVars, inputVars, pureVars, tickVars>>

\* the other deferred calls: ticker.Stop(); wg.Done(), and the goroutine ends
TimerDone(r) ==
  /\ ~crashed
  /\ r \in Live
  /\ r.pc = "stop"
  /\ wg' = wg - 1
  /\ tasks' = Take(tasks, r)
  /\ UNCHANGED <<msgChan, ctxDone, mu, timers, timerCancelled, tickers,
                 shutdown, sendPc, crashed, executed, invoked, consumed>>
  /\ UNCHANGED <<progVars, runVars, frameVars, inputVars, pureVars, tickVars>>

TaskStep(r) ==
  \/ BodyReturn(r)
  \/ Deliver(r)
  \/ BatchRun(r)
  \/ StartTimer(r)
  \/ StartTimerGo(r)
  \/ TimerTick(r)
  \/ TimerDeliver(r)
  \/ TimerExit(r)
  \/ TimerUnregister(r)
  \/ TimerDone(r)

(***************************************************************************)
(* Shutdown.                                                               *)
(***************************************************************************)
\* ce.mu.Lock()
ShutdownLock ==
  /\ ~crashed
  /\ shutdown = "idle"
  /\ mu = 0
  /\ mu' = ShutdownHolder
  /\ shutdown' = "cancelling"
  /\ UNCHANGED <<msgChan, ctxDone, wg, timers, timerCancelled, tickers, tasks, sendPc,
                 crashed, executed, invoked, consumed>>
  /\ UNCHANGED <<progVars, runVars, frameVars, inputVars, pureVars, tickVars>>

\* for _, cancel := range ce.timers { cancel() }; ce.mu.Unlock()
ShutdownCancel ==
  /\ ~crashed
  /\ shutdown = "cancelling"
  /\ mu = ShutdownHolder
  /\ timerCancelled' = timerCancelled \cup timers
  /\ mu' = 0
  /\ shutdown' = "waiting"
  /\ UNCHANGED <<msgChan, ctxDone, wg, timers, tickers, tasks, sendPc, crashed,
                 executed, invoked, consumed>>
  /\ UNCHANGED <<progVars, runVars, frameVars, inputVars, pureVars, tickVars>>

\* Shutdown without ce.wg.Wait()
wgWait_Skipped(w) == TRUE

\* ce.wg.Wait() returns when the counter is zero
wgWait(w) == w = 0

ShutdownWait ==
  /\ ~crashed
  /\ shutdown = "waiting"
  /\ wgWait(wg)
  /\ shutdown' = "returned"
  /\ UNCHANGED <<msgChan, ctxDone, wg, mu, timers, timerCancelled, tickers, tasks,
                 sendPc, crashed, executed, invoked, consumed>>
  /\ UNCHANGED <<progVars, runVars, frameVars, inputVars, pureVars, tickVars>>

(***************************************************************************)
(* The callers of the executor and the other users of the channel.         *)
(***************************************************************************)
\* the goroutines a command starts when it is executed (its own, its
\* batch children's, its timer's); a nil command is counted as one call
RECURSIVE CmdWeight(_)
SeqWeight(cs) ==
  IF cs = <<>> THEN 0 ELSE
    LET RECURSIVE Sum(_)
        Sum(i) == IF i > Len(cs) THEN 0
                  ELSE (IF cs[i].kind = "nil" THEN 0 ELSE CmdWeight(cs[i])) + Sum(i + 1)
    IN Sum(1)
CmdWeight(c) ==
  CASE c.kind = "batch" -> 1 + SeqWeight(c.cmds)
    [] c.kind = "every" -> 2
    [] OTHER -> 1

RECURSIVE Weight(_)
Weight(b) ==
  IF b = EmptyBag THEN 0
  ELSE LET c == CHOOSE x \in BagToSet(b) : TRUE
       IN b[c] * CmdWeight(c) + Weight([x \in BagToSet(b) \ {c} |-> b[x]])

\* a caller invokes ce.Execute(c); callers stop before Shutdown is called,
\* and the commands handed over start at most n goroutines in all
ExecuteUpTo(c, n) ==
  /\ ~crashed
  /\ shutdown = "idle"
  /\ Weight(executed) + CmdWeight(c) <= n
  /\ LET o == Execute(c, wg, tasks) IN
       /\ wg' = o.wg
       /\ tasks' = o.tasks
  /\ executed' = executed (+) SetToBag({c})
  /\ UNCHANGED <<msgChan, ctxDone, mu, timers, timerCancelled, tickers, shutdown,
                 sendPc, crashed, invoked, consumed>>
  /\ UNCHANGED <<progVars, runVars, frameVars, inputVars, pureVars, tickVars>>

\* the root context's cancel function is called (Program.quit, Program.Quit)
CancelRoot ==
  /\ ~crashed
  /\ ~ctxDone
  /\ ctxDone' = TRUE
  /\ UNCHANGED <<msgChan, wg, mu, timers, timerCancelled, tickers, tasks, shutdown,
                 sendPc, crashed, executed, invoked, consumed>>
  /\ UNCHANGED <<progVars, runVars, frameVars, inputVars, pureVars, tickVars>>

\* the receiving side takes the oldest message: msg := <-msgChan
Drain ==
  /\ ~crashed
  /\ msgChan # <<>>
  /\ msgChan' = Tail(msgChan)
  /\ consumed' = IF Head(msgChan) \in {TickMsg, SentMsg, batchMsg, everyMsg}
                 THEN consumed
                 ELSE consumed (+) SetToBag({Head(msgChan)})
  /\ UNCHANGED <<ctxDone, wg, mu, timers, timerCancelled, tickers, tasks, shutdown,
                 sendPc, crashed, executed, invoked>>
  /\ UNCHANGED <<progVars, runVars, frameVars, inputVars, pureVars, tickVars>>

\* a goroutine calls Program.Send and reaches its select
SendCall ==
  /\ ~crashed
  /\ sendPc = "idle"
  /\ sendPc' = "select"
  /\ UNCHANGED <<msgChan, ctxDone, wg, mu, timers, timerCancelled, tickers, tasks,
                 shutdown, crashed, executed, invoked, consumed>>
  /\ UNCHANGED <<progVars, runVars, frameVars, inputVars, pureVars, tickVars>>

\* the select of Program.Send completes
SendReturn ==
  /\ ~crashed
  /\ sendPc = "select"
  /\ msgChan' \in Send(SentMsg, msgChan, ctxDone)
  /\ sendPc' = "idle"
  /\ UNCHANGED <<ctxDone, wg, mu, timers, timerCancelled, tickers, tasks, shutdown,
                 crashed, executed, invoked, consumed>>
  /\ UNCHANGED <<progVars, runVars, frameVars, inputVars, pureVars, tickVars>>

ExecuteCall(c) == ExecuteUpTo(c, MaxTasks)

\* the executor driven the way its tests drive it: callers, the receiving
\* side, the root cancellation and one call of Shutdown
Next ==
  \/ \E c \in CmdSet : ExecuteCall(c)
  \/ \E r \in Live : TaskStep(r)
  \/ ShutdownLock
  \/ ShutdownCancel
  \/ ShutdownWait
  \/ CancelRoot
  \/ Drain


Spec == Init /\ [][Next]_vars

(***************************************************************************)
(* The same executor with a goroutine that calls Program.Send on the same  *)
(* channel, under the fairness the Go scheduler gives: a goroutine that    *)
(* can run does run.  Nothing obliges the receiving side to take messages, *)
(* nor anybody to cancel the root context.                                 *)
(***************************************************************************)
\* the commands of the fair specification
LiveCmds == { Leaf("a"), Every(TickMsg), Batch(<<Leaf("b"), NilCmd>>) }

ExecuteLive(c) == ExecuteUpTo(c, LiveTasks)

NextLive ==
  \/ \E c \in LiveCmds : ExecuteLive(c)
  \/ \E r \in Live : TaskStep(r)
  \/ ShutdownLock
  \/ ShutdownCancel
  \/ ShutdownWait
  \/ CancelRoot
  \/ Drain
  \/ SendCall
  \/ SendReturn


\* A goroutine that can take a step takes it (weak fairness).  A goroutine
\* waiting at a select or for a mutex is served when its case is ready again
\* and again: blocked senders of a channel are queued, a starved mutex waiter
\* is handed the lock, and the select of the timer loop picks among its ready
\* cases at random (strong fairness).
Fairness ==
  /\ WF_vars(\E r \in Live : BodyReturn(r))
  /\ SF_vars(\E r \in Live : Deliver(r))
  /\ WF_vars(\E r \in Live : BatchRun(r))
  /\ SF_vars(\E r \in Live : StartTimer(r))
  /\ WF_vars(\E r \in Live : StartTimerGo(r))
  /\ WF_vars(\E r \in Live : TimerTick(r))
  /\ SF_vars(\E r \in Live : TimerDeliver(r))
  /\ SF_vars(\E r \in Live : TimerExit(r))
  /\ SF_vars(\E r \in Live : TimerUnregister(r))
  /\ WF_vars(\E r \in Live : TimerDone(r))
  /\ SF_vars(ShutdownLock)
  /\ WF_vars(ShutdownCancel)
  /\ WF_vars(ShutdownWait)
  /\ SF_vars(SendReturn)

FairSpec == Init /\ [][NextLive]_vars /\ Fairness

(***************************************************************************)
(* The executor with a recurring timer whose function panics.              *)
(***************************************************************************)
\* the commands of this specification
TimerCmds ==
  { Every(Panic), Every(TickMsg), EveryNonPositive(TickMsg), Leaf("a") }

ExecuteTimer(c) == ExecuteUpTo(c, TimerTasks)

NextTimer ==
  \/ \E c \in TimerCmds : ExecuteTimer(c)
  \/ \E r \in Live : TaskStep(r)
  \/ ShutdownLock
  \/ ShutdownCancel
  \/ ShutdownWait
  \/ CancelRoot
  \/ Drain

TimerSpec == Init /\ [][NextTimer]_vars

(***************************************************************************)
(* The executor with recurring timers whose function returns the value of  *)
(* a Batch or Every command body, e.g.                                     *)
(* Every(d, func(time.Time) Msg { return Batch(a, b)() }).                 *)
(***************************************************************************)
\* the commands of this specification: markers returned by a timer
\* function, and a marker returned by a command body
MarkerCmds == { Every(batchMsg), Every(everyMsg), Batch(<<Leaf("a")>>) }

NextMarker ==
  \/ \E c \in MarkerCmds : ExecuteTimer(c)
  \/ \E r \in Live : TaskStep(r)
  \/ ShutdownLock
  \/ ShutdownCancel
  \/ ShutdownWait
  \/ CancelRoot
  \/ Drain

MarkerSpec == Init /\ [][NextMarker]_vars

(***************************************************************************)
(* The program runtime: Program.Redraw and the pointer handlers on the      *)
(* event-loop thread, with the command executor and a goroutine calling     *)
(* Program.Send beside them, and Program.handleMessage, which also calls    *)
(* model.Update, on a goroutine of its own.  The state is the one Run has   *)
(* reached when it enters window.DisplayRun.                                *)
(***************************************************************************)
\* the pointer-motion message Redraw builds from the pending coordinates
MotionMsg == "motion"

\* the commands the model's Update returns
UpdCmds == { NilCmd, Leaf("a"), Leaf(quitMsg) }

\* the messages handleMessage is called with
HandlerMsgs == { "h", quitMsg }

\* what a call of the user's Update can do: return a command, or panic
UpdateOutcomes ==
  { [panic |-> FALSE, cmd |-> c] : c \in UpdCmds } \cup
  { [panic |-> TRUE, cmd |-> NilCmd] }

\* the outcomes that keep the number of command goroutines within n
OutcomesUpTo(n) ==
  { o \in UpdateOutcomes :
      o.cmd = NilCmd \/ Weight(executed) + CmdWeight(o.cmd) <= n }

\* the assignment storing what the call was about to return even when it
\* panicked
assignModel_Always(m, o, returned) == returned

\* p.model, cmd = p.model.Update(msg): a panic leaves the call before the
\* assignment, a return stores the snapshot Update returned
assignModel(m, o, returned) == IF o.panic THEN m ELSE returned

\* handleMessage with p.mu.Lock() left out
muLock_NoLock(m) == TRUE

\* p.mu.Lock() returns once the mutex is free
muLock(m) == m = Unlocked

\* the draining loop never recognising a quit message
isQuit_Never(m) == FALSE

\* _, isQuit := msg.(quitMsg)
isQuit(m) == m = quitMsg

\* messagesToProcess built in the reverse order
collect_Front(p, x) == <<x>> \o p

\* messagesToProcess losing what it is given
collect_Drop(p, x) == p

\* messagesToProcess = append(messagesToProcess, msg)
collect(p, x) == Append(p, x)

\* the texts the model's View returns
ViewTexts == { "", "v" }

\* the View call without its deferred recover
ViewCall_NoRecover(text, panics) ==
  [view |-> text, quit |-> FALSE, crashed |-> panics]

\* view = p.model.View() inside the function with the deferred recover: a
\* panic leaves view = "" and calls p.quit()
ViewCall(text, panics) ==
  [view |-> IF panics THEN "" ELSE text, quit |-> panics, crashed |-> FALSE]

\* the frame-rate cap placed before the processing loop
loopDone_NotYet(p) == TRUE

\* for _, msg := range messagesToProcess has run to its end
loopDone(p) == p = <<>>

\* p.options.FPS > 0 and elapsed < minFrameTime: early says that less than
\* 1/FPS has passed since p.lastRender, which the zero time never allows
frameCapped(fps, last, early) == fps > 0 /\ last # NeverRendered /\ early

\* view == p.lastView && p.lastView != "" && !hadMessages
unchanged(v, last, had) == v = last /\ last # "" /\ ~had

\* how the rest of a frame can end: no surface, no grid, a Render error,
\* or a rendered frame
RenderOutcomes == { "nosurface", "nogrid", "error", "ok" }

\* Motion keeping the position of the first event of a burst
coalesce_KeepFirst(pend, cell, c) ==
  [pending |-> TRUE, cell |-> IF pend THEN cell ELSE c]

\* widget.ScheduleRedraw(), window.ScheduleRedraw(): a redraw of the window
\* is requested
ScheduleRedraw(needed) == TRUE

\* p.window.UninhibitRedraw(): a call into the window toolkit
\* (github.com/neurlang/wayland/window), whose code is not part of the
\* repository.  The call allows redraws again; the repository does not say
\* whether it also requests one, so both outcomes are possible: the request
\* flag stays as it is, or it is set
UninhibitRedraw(needed) == { needed, TRUE }

\* p.motionPending = true; p.pendingMotionX = cellX; p.pendingMotionY = cellY
coalesce(pend, cell, c) == [pending |-> TRUE, cell |-> c]

\* the event loop calls Program.Redraw, which serves the redraw request:
\* p.mu.Lock(), p.redrawScheduled = false, and when a motion is pending the
\* Update call for it begins
RedrawLock ==
  /\ ~crashed
  /\ runPc = "loop"
  /\ ~displayExit
  /\ rpc = "idle"
  /\ epc = "idle"
  /\ pmu = Unlocked
  /\ pmu' = EventLoop
  /\ tickFault' = FALSE
  /\ hadMessages' = FALSE
  /\ processedMotion' = motionPending
  /\ IF motionPending
     THEN /\ motionPending' = FALSE
          /\ updating' = updating \cup {EventLoop}
          /\ rpc' = "motionUpdate"
     ELSE /\ rpc' = "drain"
          /\ UNCHANGED <<motionPending, updating>>
  /\ redrawScheduled' = FALSE
  /\ redrawNeeded' = FALSE
  /\ UNCHANGED <<pending, hpc, hmsg, hcmd, updates, displayExit, injected>>
  /\ UNCHANGED <<dequeued, sawQuit, view, viewFault>>
  /\ UNCHANGED <<lastView, lastRender>>
  /\ UNCHANGED <<pointer, lastCell, pendingMotion, epc, emsg, events, motions>>
  /\ UNCHANGED <<execVars, runVars, pureVars, model>>

\* the Update call for the pending motion returns, or panics and is
\* recovered with p.quit(); the command it returned is executed
RedrawMotionUpdate ==
  /\ ~crashed
  /\ rpc = "motionUpdate"
  /\ \E o \in OutcomesUpTo(ProgTasks) :
       /\ updates' = Append(updates, [msg |-> MotionMsg, seq |-> 0, ok |-> ~o.panic,
                                      cmd |-> o.cmd, cell |-> pendingMotion])
       /\ model' = assignModel(model, o, Len(updates) + 1)
       /\ tickFault' = (tickFault \/ o.panic)
       /\ ctxDone' = (ctxDone \/ o.panic)
       /\ displayExit' = (displayExit \/ o.panic)
       /\ LET x == Execute(o.cmd, wg, tasks) IN
            /\ wg' = x.wg
            /\ tasks' = x.tasks
       /\ executed' = IF o.cmd = NilCmd THEN executed
                      ELSE executed (+) SetToBag({o.cmd})
  /\ updating' = updating \ {EventLoop}
  /\ rpc' = "drain"
  /\ UNCHANGED <<pmu, pending, motionPending, hpc, hmsg, hcmd, injected>>
  /\ UNCHANGED <<msgChan, mu, timers, timerCancelled, tickers, shutdown,
                 sendPc, crashed, invoked, consumed>>
  /\ UNCHANGED <<dequeued, sawQuit, view, viewFault>>
  /\ UNCHANGED <<runVars, frameVars, inputVars, pureVars>>

\* one round of the draining loop with a message ready: a quit message
\* ends the program and the Redraw call (the deferred Unlock runs), any
\* other message is appended to messagesToProcess
RedrawDrainOne ==
  /\ ~crashed
  /\ rpc = "drain"
  /\ msgChan # <<>>
  /\ msgChan' = Tail(msgChan)
  /\ dequeued' = Append(dequeued, Head(msgChan))
  /\ sawQuit' = (sawQuit \/ Head(msgChan) = quitMsg)
  /\ IF isQuit(Head(msgChan))
     THEN /\ ctxDone' = TRUE
          /\ displayExit' = TRUE
          /\ pending' = <<>>
          /\ pmu' = Unlocked
          /\ rpc' = "idle"
          /\ hadMessages' = FALSE
          /\ processedMotion' = FALSE
     ELSE /\ pending' = collect(pending,
                                [msg |-> Head(msgChan), seq |-> Len(dequeued) + 1])
          /\ hadMessages' = TRUE
          /\ UNCHANGED <<ctxDone, displayExit, pmu, rpc, processedMotion>>
  /\ UNCHANGED <<motionPending, hpc, hmsg, hcmd, updating, updates, injected>>
  /\ UNCHANGED <<wg, mu, timers, timerCancelled, tickers, tasks, shutdown,
                 sendPc, crashed, executed, invoked, consumed>>
  /\ UNCHANGED <<tickFault, view, viewFault>>
  /\ UNCHANGED <<lastView, lastRender>>
  /\ UNCHANGED <<runVars, inputVars, pureVars, model>>

\* the draining loop finds the channel empty: the default case
RedrawDrainDone ==
  /\ ~crashed
  /\ rpc = "drain"
  /\ msgChan = <<>>
  /\ rpc' = "process"
  /\ UNCHANGED <<pmu, pending, motionPending, hpc, hmsg, hcmd, updating, updates,
                 displayExit, injected>>
  /\ UNCHANGED <<execVars, runVars, frameVars, inputVars, pureVars, model, tickVars>>

\* the processing loop calls Update for the next collected message
RedrawUpdateBegin ==
  /\ ~crashed
  /\ rpc = "process"
  /\ pending # <<>>
  /\ updating' = updating \cup {EventLoop}
  /\ rpc' = "inUpdate"
  /\ UNCHANGED <<pmu, pending, motionPending, hpc, hmsg, hcmd, updates,
                 displayExit, injected>>
  /\ UNCHANGED <<execVars, runVars, frameVars, inputVars, pureVars, model, tickVars>>

\* that Update call returns, or panics and is recovered with p.quit(); the
\* command it returned is executed and the loop goes on
RedrawUpdateEnd ==
  /\ ~crashed
  /\ rpc = "inUpdate"
  /\ \E o \in OutcomesUpTo(ProgTasks) :
       /\ updates' = Append(updates, [msg |-> Head(pending).msg,
                                      seq |-> Head(pending).seq, ok |-> ~o.panic,
                                      cmd |-> o.cmd])
       /\ model' = assignModel(model, o, Len(updates) + 1)
       /\ tickFault' = (tickFault \/ o.panic)
       /\ ctxDone' = (ctxDone \/ o.panic)
       /\ displayExit' = (displayExit \/ o.panic)
       /\ LET x == Execute(o.cmd, wg, tasks) IN
            /\ wg' = x.wg
            /\ tasks' = x.tasks
       /\ executed' = IF o.cmd = NilCmd THEN executed
                      ELSE executed (+) SetToBag({o.cmd})
  /\ pending' = Tail(pending)
  /\ updating' = updating \ {EventLoop}
  /\ rpc' = "process"
  /\ UNCHANGED <<pmu, motionPending, hpc, hmsg, hcmd, injected>>
  /\ UNCHANGED <<msgChan, mu, timers, timerCancelled, tickers, shutdown,
                 sendPc, crashed, invoked, consumed>>
  /\ UNCHANGED <<dequeued, sawQuit, view, viewFault>>
  /\ UNCHANGED <<runVars, frameVars, inputVars, pureVars>>

\* the frame-rate cap, reached when the processing loop is over: with
\* FPS > 0 a tick that comes less than 1/FPS after the last render goes to
\* its early return; otherwise the tick goes on to View
RedrawFrameCap ==
  /\ ~crashed
  /\ rpc = "process"
  /\ loopDone(pending)
  /\ \E early \in BOOLEAN :
       rpc' = IF frameCapped(options.fps, lastRender, early)
              THEN "capReturn" ELSE "view"
  /\ UNCHANGED <<pmu, pending, motionPending, hpc, hmsg, hcmd, updating, updates,
                 displayExit, injected>>
  /\ UNCHANGED <<execVars, runVars, frameVars, inputVars, pureVars, model, tickVars>>

\* the early return of the frame-rate cap: UninhibitRedraw when the tick
\* had messages, then the deferred Unlock
RedrawCapReturn ==
  /\ ~crashed
  /\ rpc = "capReturn"
  /\ redrawNeeded' \in (IF hadMessages THEN UninhibitRedraw(redrawNeeded)
                        ELSE {redrawNeeded})
  /\ pmu' = Unlocked
  /\ rpc' = "idle"
  /\ hadMessages' = FALSE
  /\ processedMotion' = FALSE
  /\ UNCHANGED <<pending, motionPending, hpc, hmsg, hcmd, updating, updates,
                 displayExit, injected>>
  /\ UNCHANGED <<lastView, lastRender>>
  /\ UNCHANGED <<pointer, lastCell, pendingMotion, epc, emsg, events, motions, redrawScheduled>>
  /\ UNCHANGED <<execVars, runVars, pureVars, model, tickVars>>

\* view = p.model.View(), with its deferred recover
RedrawView ==
  /\ ~crashed
  /\ rpc = "view"
  /\ \E text \in ViewTexts, panics \in BOOLEAN :
       /\ view' = ViewCall(text, panics).view
       /\ viewFault' = (viewFault \/ panics)
       /\ ctxDone' = (ctxDone \/ ViewCall(text, panics).quit)
       /\ displayExit' = (displayExit \/ ViewCall(text, panics).quit)
       /\ crashed' = ViewCall(text, panics).crashed
  /\ rpc' = "render"
  /\ UNCHANGED <<pmu, pending, motionPending, hpc, hmsg, hcmd, updating, updates,
                 injected>>
  /\ UNCHANGED <<msgChan, wg, mu, timers, timerCancelled, tickers, tasks,
                 shutdown, sendPc, executed, invoked, consumed>>
  /\ UNCHANGED <<dequeued, sawQuit, tickFault>>
  /\ UNCHANGED <<runVars, frameVars, inputVars, pureVars, model>>

\* the unchanged-view test: Redraw goes to its return without rendering, or
\* goes on to the surface
RedrawUnchanged ==
  /\ ~crashed
  /\ rpc = "render"
  /\ rpc' = IF unchanged(view, lastView, hadMessages)
            THEN "skipReturn" ELSE "paint"
  /\ UNCHANGED <<pmu, pending, motionPending, hpc, hmsg, hcmd, updating, updates,
                 displayExit, injected>>
  /\ UNCHANGED <<execVars, runVars, frameVars, inputVars, pureVars, model, tickVars>>

\* the return of the unchanged-view test, and the deferred Unlock
RedrawSkipReturn ==
  /\ ~crashed
  /\ rpc = "skipReturn"
  /\ pmu' = Unlocked
  /\ rpc' = "idle"
  /\ view' = NoView
  /\ hadMessages' = FALSE
  /\ processedMotion' = FALSE
  /\ UNCHANGED <<pending, motionPending, hpc, hmsg, hcmd, updating, updates,
                 displayExit, injected>>
  /\ UNCHANGED <<dequeued, sawQuit, tickFault, viewFault>>
  /\ UNCHANGED <<lastView, lastRender>>
  /\ UNCHANGED <<execVars, runVars, inputVars, pureVars, model>>

\* the frame state a render attempt stores on every outcome
frameState_Always(outcome, v, last, at) ==
  [lastView |-> v, lastRender |-> Rendered]

\* p.lastView and p.lastRender after a render attempt: the three failure
\* returns store nothing, a rendered frame stores the view and the time
frameState(outcome, v, last, at) ==
  IF outcome = "ok"
  THEN [lastView |-> v, lastRender |-> Rendered]
  ELSE [lastView |-> last, lastRender |-> at]

\* the rest of the frame: the surface, ParseANSI and Render, each of which
\* can make Redraw return; a rendered frame sets p.lastView and
\* p.lastRender
RedrawRender ==
  /\ ~crashed
  /\ rpc = "paint"
  /\ \E outcome \in RenderOutcomes :
       /\ lastView' = frameState(outcome, view, lastView, lastRender).lastView
       /\ lastRender' =
            frameState(outcome, view, lastView, lastRender).lastRender
       /\ rpc' = IF outcome = "ok" THEN "rendered" ELSE "renderFailed"
  /\ UNCHANGED <<pmu, pending, motionPending, hpc, hmsg, hcmd, updating, updates,
                 displayExit, injected, hadMessages, processedMotion>>
  /\ UNCHANGED <<execVars, runVars, inputVars, pureVars, model, tickVars>>

\* Redraw returns after the render attempt and its deferred Unlock runs; a
\* rendered frame is followed by UninhibitRedraw and, when the tick
\* processed a motion and a motion is pending again, by ScheduleRedraw
RedrawRenderReturn ==
  /\ ~crashed
  /\ rpc \in {"rendered", "renderFailed"}
  /\ \E u \in UninhibitRedraw(redrawNeeded) :
       redrawNeeded' =
         IF rpc = "renderFailed" THEN redrawNeeded
         ELSE IF processedMotion /\ motionPending THEN ScheduleRedraw(u)
         ELSE u
  /\ view' = NoView
  /\ hadMessages' = FALSE
  /\ processedMotion' = FALSE
  /\ pmu' = Unlocked
  /\ rpc' = "idle"
  /\ UNCHANGED <<pending, motionPending, hpc, hmsg, hcmd, updating, updates,
                 displayExit, injected>>
  /\ UNCHANGED <<dequeued, sawQuit, tickFault, viewFault>>
  /\ UNCHANGED <<lastView, lastRender>>
  /\ UNCHANGED <<pointer, lastCell, pendingMotion, epc, emsg, events, motions, redrawScheduled>>
  /\ UNCHANGED <<execVars, runVars, pureVars, model>>

\* the pointer enters the window over cell c: Program.Enter, run by the
\* event loop between frames, stores the position
Enter(c) ==
  /\ ~crashed
  /\ runPc = "loop"
  /\ ~displayExit
  /\ rpc = "idle"
  /\ epc = "idle"
  /\ injected < MaxMsgs
  /\ pointer = NoCell => c = FirstCell
  /\ injected' = injected + 1
  /\ pointer' = c
  /\ UNCHANGED <<pmu, rpc, pending, motionPending, hpc, hmsg, hcmd, updating,
                 updates, displayExit, model>>
  /\ UNCHANGED <<lastCell, pendingMotion, epc, emsg, events, motions,
                 redrawScheduled, redrawNeeded>>
  /\ UNCHANGED <<execVars, runVars, frameVars, pureVars, tickVars>>

\* the pointer moves to cell c: Program.Motion, run by the event loop
\* between frames, stores the position; when the cell has not changed it
\* returns, otherwise it goes on to lock p.mu
Motion(c) ==
  /\ ~crashed
  /\ runPc = "loop"
  /\ ~displayExit
  /\ rpc = "idle"
  /\ epc = "idle"
  /\ injected < MaxMsgs
  /\ pointer = NoCell => c = FirstCell
  /\ injected' = injected + 1
  /\ pointer' = c
  /\ IF lastCell = NoCell \/ c # lastCell
     THEN /\ epc' = "motionLock"
          /\ UNCHANGED motions
     ELSE /\ motions' = Append(motions, c)
          /\ UNCHANGED epc
  /\ UNCHANGED <<pmu, rpc, pending, motionPending, hpc, hmsg, hcmd, updating,
                 updates, displayExit, model>>
  /\ UNCHANGED <<lastCell, pendingMotion, emsg, events, redrawScheduled,
                 redrawNeeded>>
  /\ UNCHANGED <<execVars, runVars, frameVars, pureVars, tickVars>>

\* Motion gets p.mu, records the cell as the pending motion and unlocks;
\* it goes on to request a redraw unless a motion was pending already
MotionLock ==
  /\ ~crashed
  /\ epc = "motionLock"
  /\ muLock(pmu)
  /\ lastCell' = pointer
  /\ motionPending' = coalesce(motionPending, pendingMotion, pointer).pending
  /\ pendingMotion' = coalesce(motionPending, pendingMotion, pointer).cell
  /\ motions' = Append(motions, pointer)
  /\ epc' = IF motionPending THEN "idle" ELSE "motionSchedule"
  /\ UNCHANGED <<pmu, rpc, pending, hpc, hmsg, hcmd, updating, updates,
                 displayExit, injected, model>>
  /\ UNCHANGED <<pointer, emsg, events, redrawScheduled, redrawNeeded>>
  /\ UNCHANGED <<execVars, runVars, frameVars, pureVars, tickVars>>

\* Motion, the mutex released, asks the window for a redraw
MotionSchedule ==
  /\ ~crashed
  /\ epc = "motionSchedule"
  /\ \E u \in UninhibitRedraw(redrawNeeded) :
       redrawNeeded' = ScheduleRedraw(u)
  /\ epc' = "idle"
  /\ UNCHANGED <<pointer, lastCell, pendingMotion, emsg, events, motions,
                 redrawScheduled>>
  /\ UNCHANGED <<execVars, progVars, runVars, frameVars, pureVars, tickVars>>

\* a goroutine calls p.handleMessage(m): a quit message ends the program,
\* any other message goes on to the locked Update
HandleCall(m) ==
  /\ ~crashed
  /\ runPc = "loop"
  /\ hpc = "idle"
  /\ injected < MaxMsgs
  /\ injected' = injected + 1
  /\ IF m = quitMsg
     THEN /\ ctxDone' = TRUE
          /\ displayExit' = TRUE
          /\ UNCHANGED <<hpc, hmsg>>
     ELSE /\ hpc' = "lock"
          /\ hmsg' = m
          /\ UNCHANGED <<ctxDone, displayExit>>
  /\ UNCHANGED <<pmu, rpc, pending, motionPending, hcmd, updating, updates>>
  /\ UNCHANGED <<msgChan, wg, mu, timers, timerCancelled, tickers, tasks,
                 shutdown, sendPc, crashed, executed, invoked, consumed>>
  /\ UNCHANGED <<runVars, frameVars, inputVars, pureVars, model, tickVars>>

\* handleMessage gets the mutex and its Update call begins
HandleLock ==
  /\ ~crashed
  /\ hpc = "lock"
  /\ muLock(pmu)
  /\ pmu' = Handler
  /\ updating' = updating \cup {Handler}
  /\ hpc' = "inUpdate"
  /\ UNCHANGED <<rpc, pending, motionPending, hmsg, hcmd, updates, displayExit,
                 injected>>
  /\ UNCHANGED <<execVars, runVars, frameVars, inputVars, pureVars, model, tickVars>>

\* that Update call returns and the mutex is released; a panic is not
\* recovered here and ends the process
HandleUpdateEnd ==
  /\ ~crashed
  /\ hpc = "inUpdate"
  /\ \E o \in OutcomesUpTo(ProgTasks) :
       /\ crashed' = o.panic
       /\ updates' = Append(updates, [msg |-> hmsg, seq |-> 0, ok |-> ~o.panic,
                                      cmd |-> o.cmd])
       /\ model' = assignModel(model, o, Len(updates) + 1)
       /\ hcmd' = o.cmd
  /\ pmu' = Unlocked
  /\ updating' = updating \ {Handler}
  /\ hpc' = "execute"
  /\ hmsg' = NilMsg
  /\ UNCHANGED <<rpc, pending, motionPending, displayExit, injected>>
  /\ UNCHANGED <<msgChan, ctxDone, wg, mu, timers, timerCancelled, tickers,
                 tasks, shutdown, sendPc, executed, invoked, consumed>>
  /\ UNCHANGED <<runVars, frameVars, inputVars, pureVars, tickVars>>

\* handleMessage, the mutex released, gives the returned command to the
\* executor unless it is nil
HandleExecute ==
  /\ ~crashed
  /\ hpc = "execute"
  /\ LET x == Execute(hcmd, wg, tasks) IN
       /\ wg' = x.wg
       /\ tasks' = x.tasks
  /\ executed' = IF hcmd = NilCmd THEN executed
                 ELSE executed (+) SetToBag({hcmd})
  /\ hcmd' = NilCmd
  /\ hpc' = "schedule"
  /\ UNCHANGED <<pmu, rpc, pending, motionPending, hmsg, updating, updates,
                 displayExit, injected, model>>
  /\ UNCHANGED <<msgChan, ctxDone, mu, timers, timerCancelled, tickers,
                 shutdown, sendPc, crashed, invoked, consumed>>
  /\ UNCHANGED <<runVars, frameVars, inputVars, pureVars, tickVars>>

\* handleMessage ends by asking the window for a redraw
HandleSchedule ==
  /\ ~crashed
  /\ hpc = "schedule"
  /\ \E u \in UninhibitRedraw(redrawNeeded) :
       redrawNeeded' = ScheduleRedraw(u)
  /\ hpc' = "idle"
  /\ UNCHANGED <<pmu, rpc, pending, motionPending, hmsg, hcmd, updating,
                 updates, displayExit, injected, model>>
  /\ UNCHANGED <<pointer, lastCell, pendingMotion, epc, emsg, events, motions,
                 redrawScheduled>>
  /\ UNCHANGED <<execVars, runVars, frameVars, pureVars, tickVars>>

\* a goroutine calls Program.Send, as long as messages are left to send
SendUpTo(n) ==
  /\ injected < n
  /\ injected' = injected + 1
  /\ ~crashed
  /\ sendPc = "idle"
  /\ sendPc' = "select"
  /\ UNCHANGED <<pmu, rpc, pending, motionPending, hpc, hmsg, hcmd, updating,
                 updates, displayExit>>
  /\ UNCHANGED <<msgChan, ctxDone, wg, mu, timers, timerCancelled, tickers,
                 tasks, shutdown, crashed, executed, invoked, consumed>>
  /\ UNCHANGED <<runVars, frameVars, inputVars, pureVars, model, tickVars>>

\* a call of Program.Send from outside, one of at most MaxMsgs
SendFromOutside == SendUpTo(MaxMsgs)

\* the same call while Run is followed from its start to its return
\* the ticks the timer goroutines have produced and not lost: those the
\* program has received, those in the channel and those being delivered
IsTick(m) == m = TickMsg
Ticks ==
  Len(SelectSeq(dequeued \o msgChan, IsTick)) +
  Cardinality({ r \in Live : r.pc = "tdeliver" })

RunSend == SendUpTo(RunMsgs - Ticks)

ProgNext ==
  \/ RedrawLock
  \/ RedrawMotionUpdate
  \/ RedrawDrainOne
  \/ RedrawDrainDone
  \/ RedrawUpdateBegin
  \/ RedrawUpdateEnd
  \/ RedrawFrameCap
  \/ RedrawCapReturn
  \/ RedrawView
  \/ RedrawUnchanged
  \/ RedrawSkipReturn
  \/ RedrawRender
  \/ RedrawRenderReturn
  \/ \E c \in Cells : Enter(c)
  \/ \E c \in Cells : Motion(c)
  \/ MotionLock
  \/ MotionSchedule
  \/ SendFromOutside
  \/ SendReturn
  \/ \E r \in Live : BodyReturn(r)
  \/ \E r \in Live : Deliver(r)

ProgSpec == Init /\ [][ProgNext]_vars

(***************************************************************************)
(* The same runtime with a goroutine that calls Program.handleMessage, as  *)
(* processMessages did in the earlier revision of the program.             *)
(***************************************************************************)
HandlerNext ==
  \/ ProgNext
  \/ \E m \in HandlerMsgs : HandleCall(m)
  \/ HandleLock
  \/ HandleUpdateEnd
  \/ HandleExecute
  \/ HandleSchedule

HandlerSpec == Init /\ [][HandlerNext]_vars

(***************************************************************************)
(* The same runtime with callers of Program.Send that pass a value of the  *)
(* exported type QuitMsg.                                                  *)
(***************************************************************************)
\* the select of Program.Send completes for a call made with QuitMsg{}
SendQuitMsg ==
  /\ ~crashed
  /\ sendPc = "select"
  /\ msgChan' \in Send(QuitMsg, msgChan, ctxDone)
  /\ sendPc' = "idle"
  /\ UNCHANGED <<ctxDone, wg, mu, timers, timerCancelled, tickers, tasks,
                 shutdown, crashed, executed, invoked, consumed>>
  /\ UNCHANGED <<progVars, runVars, frameVars, inputVars, pureVars, tickVars>>

QuitNext ==
  \/ ProgNext
  \/ SendQuitMsg

QuitSpec == Init /\ [][QuitNext]_vars

(***************************************************************************)
(* Program.Run from NewProgram to its return, with Program.Quit callable   *)
(* from any goroutine.                                                     *)
(***************************************************************************)
\* validateOptions rejecting FPS = 0 as well
validateOptions_FpsPositive(o) ==
  CASE o.width <= 0 -> "width"
    [] o.height <= 0 -> "height"
    [] o.fontSize <= 0 -> "fontSize"
    [] o.fps <= 0 -> "fps"
    [] o.title = "" -> "title"
    [] o.family = "" -> "family"
    [] OTHER -> "ok"

\* Program.validateOptions: the first check that fails, "ok" for nil
validateOptions(o) ==
  IF o.width <= 0 THEN "width"
  ELSE IF o.height <= 0 THEN "height"
  ELSE IF o.fontSize <= 0 THEN "fontSize"
  ELSE IF o.fps < 0 THEN "fps"
  ELSE IF o.title = "" THEN "title"
  ELSE IF o.family = "" THEN "family"
  ELSE "ok"

\* the commands the model's Init returns
InitCmds ==
  { NilCmd, Leaf("a"), Every(TickMsg), Batch(<<Leaf("b"), NilCmd>>) }

\* what the call of the user's Init can do: return a command, or panic
InitOutcomes ==
  { [panic |-> FALSE, cmd |-> c] : c \in InitCmds } \cup
  { [panic |-> TRUE, cmd |-> NilCmd] }

\* Run validates the options and returns the model and an error when they
\* are invalid
RunValidate ==
  /\ ~crashed
  /\ runPc = "start"
  /\ IF validateOptions(options) = "ok"
     THEN /\ runPc' = "acquire"
          /\ UNCHANGED runErr
     ELSE /\ runPc' = "error"
          /\ runErr' = "config"
  /\ UNCHANGED <<options, resources, initCalled, initFault, quitClosed, quitCalls>>
  /\ UNCHANGED <<execVars, progVars, tickVars, frameVars, inputVars, pureVars>>

\* Run creates the display, the window, the widget, the renderer and the
\* executor; when one of the first four cannot be created Run returns an
\* error and its deferred calls destroy what was created
RunAcquire ==
  /\ ~crashed
  /\ runPc = "acquire"
  /\ \E ok \in BOOLEAN :
       IF ok
       THEN /\ resources' = AllResources
            /\ runPc' = "init"
            /\ UNCHANGED runErr
       ELSE /\ resources' = {}
            /\ runPc' = "error"
            /\ runErr' = "resource"
  /\ UNCHANGED <<options, initCalled, initFault, quitClosed, quitCalls>>
  /\ UNCHANGED <<execVars, progVars, tickVars, frameVars, inputVars, pureVars>>

\* Run calls the model's Init under a deferred recover, executes the
\* command it returned and enters window.DisplayRun
RunInitCall ==
  /\ ~crashed
  /\ runPc = "init"
  /\ \E o \in InitOutcomes :
       /\ initFault' = o.panic
       /\ LET x == Execute(o.cmd, wg, tasks) IN
            /\ wg' = x.wg
            /\ tasks' = x.tasks
       /\ executed' = IF o.cmd = NilCmd THEN executed
                      ELSE executed (+) SetToBag({o.cmd})
  /\ initCalled' = TRUE
  /\ runPc' = "loop"
  /\ UNCHANGED <<options, resources, runErr, quitClosed, quitCalls>>
  /\ UNCHANGED <<msgChan, ctxDone, mu, timers, timerCancelled, tickers,
                 shutdown, sendPc, crashed, invoked, consumed>>
  /\ UNCHANGED <<progVars, tickVars, frameVars, inputVars, pureVars>>

\* window.DisplayRun returns: display.Exit() has been called and the event
\* loop is not inside a handler
RunLoopExit ==
  /\ ~crashed
  /\ runPc = "loop"
  /\ displayExit
  /\ rpc = "idle"
  /\ runPc' = "deferred"
  /\ UNCHANGED <<options, resources, runErr, initCalled, initFault, quitClosed,
                 quitCalls>>
  /\ UNCHANGED <<execVars, progVars, tickVars, frameVars, inputVars, pureVars>>

\* the deferred p.cmdExec.Shutdown()
RunShutdownLock == runPc = "deferred" /\ ShutdownLock
RunShutdownCancel == runPc = "deferred" /\ ShutdownCancel
RunShutdownWait == runPc = "deferred" /\ ShutdownWait

\* the deferred Destroy calls of the widget, the window and the display,
\* and the return of Run
RunReturn ==
  /\ ~crashed
  /\ runPc = "deferred"
  /\ shutdown = "returned"
  /\ resources' = {}
  /\ runPc' = "returned"
  /\ UNCHANGED <<options, runErr, initCalled, initFault, quitClosed, quitCalls>>
  /\ UNCHANGED <<execVars, progVars, tickVars, frameVars, inputVars, pureVars>>

\* a goroutine calls Program.Quit: p.cancel(), close(p.quitChan); closing
\* a closed channel panics
QuitCall ==
  /\ ~crashed
  /\ quitCalls < MaxQuits
  /\ quitCalls' = quitCalls + 1
  /\ ctxDone' = TRUE
  /\ crashed' = quitClosed
  /\ quitClosed' = TRUE
  /\ UNCHANGED <<runPc, options, resources, runErr, initCalled, initFault>>
  /\ UNCHANGED <<msgChan, wg, mu, timers, timerCancelled, tickers, tasks,
                 shutdown, sendPc, executed, invoked, consumed>>
  /\ UNCHANGED <<progVars, tickVars, frameVars, inputVars, pureVars>>

\* the ticker of a timer fires, as long as messages are left to send
RunTimerTick(r) == injected + Ticks < RunMsgs /\ TimerTick(r)

\* Run with the event loop, Program.Quit, a goroutine calling Program.Send
\* and the goroutines of the executor
RunNext ==
  \/ RunValidate
  \/ RunAcquire
  \/ RunInitCall
  \/ RunLoopExit
  \/ RunShutdownLock
  \/ RunShutdownCancel
  \/ RunShutdownWait
  \/ RunReturn
  \/ QuitCall
  \/ RedrawLock
  \/ RedrawDrainOne
  \/ RedrawDrainDone
  \/ RedrawUpdateBegin
  \/ RedrawUpdateEnd
  \/ RedrawFrameCap
  \/ RedrawCapReturn
  \/ RedrawView
  \/ RedrawUnchanged
  \/ RedrawSkipReturn
  \/ RedrawRender
  \/ RedrawRenderReturn
  \/ RunSend
  \/ SendReturn
  \/ \E r \in Live : BodyReturn(r)
  \/ \E r \in Live : Deliver(r)
  \/ \E r \in Live : BatchRun(r)
  \/ \E r \in Live : StartTimer(r)
  \/ \E r \in Live : StartTimerGo(r)
  \/ \E r \in Live : RunTimerTick(r)
  \/ \E r \in Live : TimerDeliver(r)
  \/ \E r \in Live : TimerExit(r)
  \/ \E r \in Live : TimerUnregister(r)
  \/ \E r \in Live : TimerDone(r)

RunSpec == RunInit /\ [][RunNext]_vars

\* Run and every goroutine that can take a step take it; what comes from
\* outside (a redraw request, calls of Send and Quit) need not come
RunFairness ==
  /\ WF_vars(RunValidate)
  /\ WF_vars(RunAcquire)
  /\ WF_vars(RunInitCall)
  /\ WF_vars(RunLoopExit)
  /\ SF_vars(RunShutdownLock)
  /\ WF_vars(RunShutdownCancel)
  /\ WF_vars(RunShutdownWait)
  /\ WF_vars(RunReturn)
  /\ WF_vars(RedrawDrainOne)
  /\ WF_vars(RedrawDrainDone)
  /\ WF_vars(RedrawUpdateBegin)
  /\ WF_vars(RedrawUpdateEnd)
  /\ WF_vars(RedrawFrameCap)
  /\ WF_vars(RedrawCapReturn)
  /\ WF_vars(RedrawView)
  /\ WF_vars(RedrawUnchanged)
  /\ WF_vars(RedrawSkipReturn)
  /\ WF_vars(RedrawRender)
  /\ WF_vars(RedrawRenderReturn)
  /\ SF_vars(SendReturn)
  /\ WF_vars(\E r \in Live : BodyReturn(r))
  /\ SF_vars(\E r \in Live : Deliver(r))
  /\ WF_vars(\E r \in Live : BatchRun(r))
  /\ SF_vars(\E r \in Live : StartTimer(r))
  /\ WF_vars(\E r \in Live : StartTimerGo(r))
  /\ WF_vars(\E r \in Live : RunTimerTick(r))
  /\ SF_vars(\E r \in Live : TimerDeliver(r))
  /\ SF_vars(\E r \in Live : TimerExit(r))
  /\ SF_vars(\E r \in Live : TimerUnregister(r))
  /\ WF_vars(\E r \in Live : TimerDone(r))

FairRunSpec == RunInit /\ [][RunNext]_vars /\ RunFairness

(***************************************************************************)
(* The input handlers the event loop calls between frames: Key and Resize  *)
(* send with a select that has a default case, Button and Axis send with   *)
(* Program.Send.                                                           *)
(***************************************************************************)
\* the messages the handlers build
KeyMsg == "KeyMsg"
WindowSizeMsg == "WindowSizeMsg"
MouseButtonMsg == "MouseMsg button"
MouseScrollMsg == "MouseMsg scroll"

\* select { case p.msgChan <- m: default: }: the message is dropped when the
\* channel is full
trySend(m, ch) == IF Len(ch) < ChanCap THEN Append(ch, m) ELSE ch

\* the event loop is running and is in none of its callbacks
EventLoopIdle ==
  /\ ~crashed
  /\ runPc = "loop"
  /\ ~displayExit
  /\ rpc = "idle"
  /\ epc = "idle"

\* Program.Key: MapKeyboardEvent gives a message or nil; the message is sent
\* without blocking, and a redraw is requested when it was sent
Key ==
  /\ EventLoopIdle
  /\ events < MaxEvents
  /\ events' = events + 1
  /\ \E mapped \in BOOLEAN :
       /\ msgChan' = IF mapped THEN trySend(KeyMsg, msgChan) ELSE msgChan
       /\ \E u \in UninhibitRedraw(redrawNeeded) :
            redrawNeeded' = IF mapped /\ Len(msgChan) < ChanCap
                            THEN ScheduleRedraw(u) ELSE u
  /\ UNCHANGED <<pointer, lastCell, pendingMotion, epc, emsg, motions,
                 redrawScheduled>>
  /\ UNCHANGED <<ctxDone, wg, mu, timers, timerCancelled, tickers, tasks,
                 shutdown, sendPc, crashed, executed, invoked, consumed>>
  /\ UNCHANGED <<progVars, runVars, frameVars, pureVars, tickVars>>

\* Program.Resize: under p.mu, the new size is sent without blocking
Resize ==
  /\ EventLoopIdle
  /\ pmu = Unlocked
  /\ events < MaxEvents
  /\ events' = events + 1
  /\ msgChan' = trySend(WindowSizeMsg, msgChan)
  /\ UNCHANGED <<pointer, lastCell, pendingMotion, epc, emsg, motions,
                 redrawScheduled, redrawNeeded>>
  /\ UNCHANGED <<ctxDone, wg, mu, timers, timerCancelled, tickers, tasks,
                 shutdown, sendPc, crashed, executed, invoked, consumed>>
  /\ UNCHANGED <<progVars, runVars, frameVars, pureVars, tickVars>>

\* Program.Button: MapMouseButton gives a message or nil; the message goes
\* to p.Send
Button ==
  /\ EventLoopIdle
  /\ events < MaxEvents
  /\ events' = events + 1
  /\ \E mapped \in BOOLEAN :
       IF mapped
       THEN epc' = "send" /\ emsg' = MouseButtonMsg
       ELSE UNCHANGED <<epc, emsg>>
  /\ UNCHANGED <<pointer, lastCell, pendingMotion, motions, redrawScheduled,
                 redrawNeeded>>
  /\ UNCHANGED <<execVars, progVars, runVars, frameVars, pureVars, tickVars>>

\* Program.Axis: MapMouseScroll gives a message or nil; the message goes to
\* p.Send
Axis ==
  /\ EventLoopIdle
  /\ events < MaxEvents
  /\ events' = events + 1
  /\ \E mapped \in BOOLEAN :
       IF mapped
       THEN epc' = "send" /\ emsg' = MouseScrollMsg
       ELSE UNCHANGED <<epc, emsg>>
  /\ UNCHANGED <<pointer, lastCell, pendingMotion, motions, redrawScheduled,
                 redrawNeeded>>
  /\ UNCHANGED <<execVars, progVars, runVars, frameVars, pureVars, tickVars>>

\* the select of the p.Send called by Button or Axis completes, and the
\* handler requests a redraw unless p.redrawScheduled says one is requested
InputSend ==
  /\ ~crashed
  /\ epc = "send"
  /\ msgChan' \in Send(emsg, msgChan, ctxDone)
  /\ epc' = "idle"
  /\ emsg' = NilMsg
  /\ redrawScheduled' = TRUE
  /\ \E u \in UninhibitRedraw(redrawNeeded) :
       redrawNeeded' = IF redrawScheduled THEN redrawNeeded
                       ELSE ScheduleRedraw(u)
  /\ UNCHANGED <<pointer, lastCell, pendingMotion, events, motions>>
  /\ UNCHANGED <<ctxDone, wg, mu, timers, timerCancelled, tickers, tasks,
                 shutdown, sendPc, crashed, executed, invoked, consumed>>
  /\ UNCHANGED <<progVars, runVars, frameVars, pureVars, tickVars>>

InputNext ==
  \/ RedrawLock
  \/ RedrawDrainOne
  \/ RedrawDrainDone
  \/ RedrawUpdateBegin
  \/ RedrawUpdateEnd
  \/ RedrawFrameCap
  \/ RedrawCapReturn
  \/ RedrawView
  \/ RedrawUnchanged
  \/ RedrawSkipReturn
  \/ RedrawRender
  \/ RedrawRenderReturn
  \/ Key
  \/ Resize
  \/ Button
  \/ Axis
  \/ InputSend
  \/ \E r \in Live : BodyReturn(r)
  \/ \E r \in Live : Deliver(r)

InputSpec == Init /\ [][InputNext]_vars

(***************************************************************************)
(* The terminal grid (Color, Cell, TerminalGrid) and TerminalGrid.Diff.    *)
(* Rows and columns are counted from 0, as the slices of the code are.     *)
(***************************************************************************)
\* Color{IsDefault: true}
DefaultColor == [R |-> 0, G |-> 0, B |-> 0, IsDefault |-> TRUE]

\* Color{R: r, G: g, B: b, IsDefault: false}
NewColor(r, g, b) == [R |-> r, G |-> g, B |-> b, IsDefault |-> FALSE]

\* Cell{Rune: ' ', FgColor: DefaultColor(), BgColor: DefaultColor()}
NewCell ==
  [ Rune |-> " ", FgColor |-> DefaultColor, BgColor |-> DefaultColor,
    Bold |-> FALSE, Italic |-> FALSE, Underline |-> FALSE,
    Strikethrough |-> FALSE ]

\* NewTerminalGrid(width, height): nil unless both are positive, else a
\* grid of default cells
NewTerminalGrid(width, height) ==
  IF width <= 0 \/ height <= 0
  THEN NilGrid
  ELSE [ nil |-> FALSE, Width |-> width, Height |-> height,
         Cells |-> [y \in 0..(height - 1) |-> [x \in 0..(width - 1) |-> NewCell]] ]

\* cellsEqual leaving the strikethrough flag out
cellsEqual_NoStrike(a, b) ==
  /\ a.Rune = b.Rune
  /\ a.FgColor = b.FgColor
  /\ a.BgColor = b.BgColor
  /\ a.Bold = b.Bold
  /\ a.Italic = b.Italic
  /\ a.Underline = b.Underline

\* cellsEqual(a, b)
cellsEqual(a, b) ==
  /\ a.Rune = b.Rune
  /\ a.FgColor = b.FgColor
  /\ a.BgColor = b.BgColor
  /\ a.Bold = b.Bold
  /\ a.Italic = b.Italic
  /\ a.Underline = b.Underline
  /\ a.Strikethrough = b.Strikethrough

\* Region{X: x, Y: y, Width: w, Height: h}
Region(x, y, w, h) == [X |-> x, Y |-> y, Width |-> w, Height |-> h]

\* the inner loop of Diff over row y, at column x: startX is -1 while no run
\* of changed cells is open; after the loop a run still open is closed at
\* the end of the line
RECURSIVE DiffLine(_, _, _, _, _, _, _)
DiffLine(g, o, y, x, startX, lineChanged, acc) ==
  IF x < g.Width
  THEN LET cellChanged == ~cellsEqual(g.Cells[y][x], o.Cells[y][x]) IN
         IF cellChanged /\ startX = -1
         THEN DiffLine(g, o, y, x + 1, x, TRUE, acc)
         ELSE IF ~cellChanged /\ startX # -1
              THEN DiffLine(g, o, y, x + 1, -1, lineChanged,
                            Append(acc, Region(startX, y, x - startX, 1)))
              ELSE DiffLine(g, o, y, x + 1, startX, lineChanged, acc)
  ELSE IF lineChanged /\ startX # -1
       THEN Append(acc, Region(startX, y, g.Width - startX, 1))
       ELSE acc

\* the outer loop of Diff, at row y
RECURSIVE DiffRows(_, _, _, _)
DiffRows(g, o, y, acc) ==
  IF y < g.Height
  THEN DiffRows(g, o, y + 1, DiffLine(g, o, y, 0, -1, FALSE, acc))
  ELSE acc

\* the full invalidation covering the first row only
fullRegion_OneRow(g) == <<Region(0, 0, g.Width, 1)>>

\* []Region{{X: 0, Y: 0, Width: tg.Width, Height: tg.Height}}
fullRegion(g) == <<Region(0, 0, g.Width, g.Height)>>

\* tg.Diff(other)
Diff(g, o) ==
  IF o.nil \/ g.Width # o.Width \/ g.Height # o.Height
  THEN fullRegion(g)
  ELSE DiffRows(g, o, 0, <<>>)

\* the largest number of cells of a grid
MaxArea == 4

\* the dimensions of the grids
Dims == { d \in (1..MaxArea) \X (1..MaxArea) : d[1] * d[2] <= MaxArea }

\* a cell that differs from the default cell in its character only
LetterCell == [NewCell EXCEPT !.Rune = "x"]

\* cells that differ from the default cell in one field, and one that
\* differs in all of them
VariantCells ==
  { LetterCell,
    [NewCell EXCEPT !.FgColor = NewColor(128, 0, 0)],
    [NewCell EXCEPT !.BgColor = NewColor(0, 0, 0)],
    [NewCell EXCEPT !.Bold = TRUE],
    [NewCell EXCEPT !.Italic = TRUE],
    [NewCell EXCEPT !.Underline = TRUE],
    [NewCell EXCEPT !.Strikethrough = TRUE],
    [ Rune |-> "y", FgColor |-> NewColor(0, 128, 0), BgColor |-> NewColor(0, 0, 128),
      Bold |-> TRUE, Italic |-> TRUE, Underline |-> TRUE, Strikethrough |-> TRUE ] }

\* the grids of dimensions d whose cells are taken from cs
GridsOf(d, cs) ==
  { [ nil |-> FALSE, Width |-> d[1], Height |-> d[2], Cells |-> c ] :
      c \in [0..(d[2] - 1) -> [0..(d[1] - 1) -> cs]] }

\* the state of a caller that runs no Program: nothing but the grid
\* functions is used
NoProgram ==
  /\ InitRest
  /\ runPc = "none"
  /\ options = DefaultOptions
  /\ resources = {}
  /\ initCalled = FALSE
  /\ initFault = FALSE

\* no call of ParseANSI is in progress
ParseIdle ==
  /\ runes = <<>>
  /\ ri = 0
  /\ parser = [nil |-> TRUE]
  /\ parsePc = "idle"
  /\ size = <<0, 0>>
  /\ ti = [nil |-> TRUE]

\* two grids, or a grid and nil, about to be compared
DiffInit ==
  /\ NoProgram
  /\ ParseIdle
  /\ \E d \in Dims : tg \in GridsOf(d, {NewCell, LetterCell})
  /\ \E v \in VariantCells :
       other \in {NilGrid} \cup UNION { GridsOf(d, {NewCell, v}) : d \in Dims }
  /\ regions = <<>>
  /\ diffPc = "ready"

\* regions := tg.Diff(other)
DiffCall ==
  /\ diffPc = "ready"
  /\ regions' = Diff(tg, other)
  /\ diffPc' = "done"
  /\ UNCHANGED <<tg, other, runes, ri, parser, parsePc, size, ti>>
  /\ UNCHANGED <<execVars, progVars, runVars, tickVars, frameVars, inputVars>>

DiffSpec == DiffInit /\ [][DiffCall]_vars

(***************************************************************************)
(* ParseANSI.  A string is the sequence of its runes, a rune a string of   *)
(* one character; the control characters have names.                       *)
(***************************************************************************)
ESC == "ESC"
LF == "\n"
CR == "\r"
TAB == "\t"
\* the zero rune found behind the end of a rune slice
NUL == "NUL"

\* (ch >= 'A' && ch <= 'Z') || (ch >= 'a' && ch <= 'z')
Letters ==
  { "A", "B", "C", "D", "E", "F", "G", "H", "I", "J", "K", "L", "M", "N", "O",
    "P", "Q", "R", "S", "T", "U", "V", "W", "X", "Y", "Z",
    "a", "b", "c", "d", "e", "f", "g", "h", "i", "j", "k", "l", "m", "n", "o",
    "p", "q", "r", "s", "t", "u", "v", "w", "x", "y", "z" }

\* the value of a decimal digit
DigitVal ==
  [ c \in { "0", "1", "2", "3", "4", "5", "6", "7", "8", "9" } |->
      CASE c = "0" -> 0 [] c = "1" -> 1 [] c = "2" -> 2 [] c = "3" -> 3
        [] c = "4" -> 4 [] c = "5" -> 5 [] c = "6" -> 6 [] c = "7" -> 7
        [] c = "8" -> 8 [] c = "9" -> 9 ]

(***************************************************************************)
(* An int of the program has 64 bits and its arithmetic wraps around.  It  *)
(* is written here as its four limbs of 16 bits in two's complement, the   *)
(* lowest limb first.                                                      *)
(***************************************************************************)
Limb == 256 * 256

\* the int of a number n that is small enough to be written down
Int64(n) ==
  LET l0 == n % Limb
      h == (n - l0) \div Limb
      l1 == h % Limb
      sign == ((h - l1) \div Limb) % Limb
  IN  <<l0, l1, sign, sign>>

\* a + b
Add64(a, b) ==
  LET s0 == a[1] + b[1]
      s1 == a[2] + b[2] + (s0 \div Limb)
      s2 == a[3] + b[3] + (s1 \div Limb)
      s3 == a[4] + b[4] + (s2 \div Limb)
  IN  <<s0 % Limb, s1 % Limb, s2 % Limb, s3 % Limb>>

\* -a
Neg64(a) ==
  Add64(<<Limb - 1 - a[1], Limb - 1 - a[2], Limb - 1 - a[3], Limb - 1 - a[4]>>,
        Int64(1))

\* a - b
Sub64(a, b) == Add64(a, Neg64(b))

\* a < 0
Negative64(a) == a[4] >= Limb \div 2

\* a * k, for a k from 0 to 255
Mul64(a, k) ==
  LET p0 == a[1] * k
      p1 == a[2] * k + (p0 \div Limb)
      p2 == a[3] * k + (p1 \div Limb)
      p3 == a[4] * k + (p2 \div Limb)
  IN  <<p0 % Limb, p1 % Limb, p2 % Limb, p3 % Limb>>

\* the quotient of the limbs read as a number without sign by k from 1 to 255
UQuo64(a, k) ==
  LET r3 == a[4] % k
      c2 == r3 * Limb + a[3]
      c1 == (c2 % k) * Limb + a[2]
      c0 == (c1 % k) * Limb + a[1]
  IN  <<c0 \div k, c1 \div k, c2 \div k, a[4] \div k>>

\* a / k, truncated towards zero, for a k from 1 to 255
Quo64(a, k) ==
  IF Negative64(a) THEN Neg64(UQuo64(Neg64(a), k)) ELSE UQuo64(a, k)

\* a distance no index, size or code of the program comes near
Far == 1024 * 1024 * 1024

\* the int as a number: itself from -Far to Far, and -Far or Far beyond, so
\* that it compares with every number in between as the int does
Clamp64(a) ==
  IF Negative64(a)
  THEN IF a[4] = Limb - 1 /\ a[3] = Limb - 1 /\ a[2] >= 3 * (Limb \div 4)
       THEN 0 - ((Limb - 1 - a[1]) + Limb * (Limb - 1 - a[2]) + 1)
       ELSE 0 - Far
  ELSE IF a[4] = 0 /\ a[3] = 0 /\ a[2] < Limb \div 4
       THEN a[1] + Limb * a[2]
       ELSE Far

\* uint8(a) of an int
uint8Of(a) == a[1] % 256

\* the value of a sequence of decimal digits, read from the left
RECURSIVE DigitsValue(_, _)
DigitsValue(s, acc) ==
  IF s = <<>> THEN acc
  ELSE DigitsValue(Tail(s), Add64(Mul64(acc, 10), Int64(DigitVal[Head(s)])))

\* the digits of the largest int, 1<<63 - 1, and of the size of the smallest
MaxIntDigits ==
  << "9", "2", "2", "3", "3", "7", "2", "0", "3", "6", "8", "5", "4", "7", "7",
     "5", "8", "0", "7" >>
MinIntDigits ==
  << "9", "2", "2", "3", "3", "7", "2", "0", "3", "6", "8", "5", "4", "7", "7",
     "5", "8", "0", "8" >>

\* a sequence of digits without its leading zeros
RECURSIVE Significant(_)
Significant(d) ==
  IF d # <<>> /\ Head(d) = "0" THEN Significant(Tail(d)) ELSE d

\* of two digit sequences of one length, the first is the larger number
RECURSIVE DigitsAbove(_, _)
DigitsAbove(a, b) ==
  IF a = <<>> THEN FALSE
  ELSE IF Head(a) # Head(b) THEN DigitVal[Head(a)] > DigitVal[Head(b)]
       ELSE DigitsAbove(Tail(a), Tail(b))

\* the number does not fit an int of 64 bits: strconv.Atoi returns ErrRange
OutOfRange(digits, negative) ==
  LET d == Significant(digits)
      limit == IF negative THEN MinIntDigits ELSE MaxIntDigits
  IN  \/ Len(d) > Len(limit)
      \/ Len(d) = Len(limit) /\ DigitsAbove(d, limit)

\* strconv.Atoi(s): an optional sign and at least one digit, nothing else,
\* and a value that fits an int
Atoi(s) ==
  LET signed == s # <<>> /\ Head(s) \in {"+", "-"}
      digits == IF signed THEN Tail(s) ELSE s
  IN  IF /\ digits # <<>>
         /\ \A i \in DOMAIN digits : digits[i] \in DOMAIN DigitVal
         /\ ~OutOfRange(digits, signed /\ Head(s) = "-")
      THEN [ ok |-> TRUE,
             num |-> IF signed /\ Head(s) = "-"
                     THEN Neg64(DigitsValue(digits, Int64(0)))
                     ELSE DigitsValue(digits, Int64(0)) ]
      ELSE [ ok |-> FALSE, num |-> Int64(0) ]

\* strings.Split(s, ";"), part being the piece read so far
RECURSIVE Split(_, _)
Split(s, part) ==
  IF s = <<>> THEN <<part>>
  ELSE IF Head(s) = ";"
       THEN <<part>> \o Split(Tail(s), <<>>)
       ELSE Split(Tail(s), Append(part, Head(s)))

\* the loop of parseSGRParams over the parts
RECURSIVE codesOf(_)
codesOf(parts) ==
  IF parts = <<>> THEN <<>>
  ELSE LET part == Head(parts) IN
         (IF part = <<>> THEN <<Int64(0)>>
          ELSE IF Atoi(part).ok THEN <<Atoi(part).num>> ELSE <<>>)
         \o codesOf(Tail(parts))

\* parseSGRParams(params)
parseSGRParams(params) ==
  IF params = <<>> THEN <<Int64(0)>> ELSE codesOf(Split(params, <<>>))

\* the palette of ansi16Color
ansi16Colors ==
  << NewColor(0, 0, 0), NewColor(128, 0, 0), NewColor(0, 128, 0),
     NewColor(128, 128, 0), NewColor(0, 0, 128), NewColor(128, 0, 128),
     NewColor(0, 128, 128), NewColor(192, 192, 192), NewColor(128, 128, 128),
     NewColor(255, 0, 0), NewColor(0, 255, 0), NewColor(255, 255, 0),
     NewColor(0, 0, 255), NewColor(255, 0, 255), NewColor(0, 255, 255),
     NewColor(255, 255, 255) >>

\* ansi16Color reading the bright half of the palette
ansi16Color_Bright(code) ==
  IF code >= 0 /\ code < 8 THEN ansi16Colors[code + 9] ELSE DefaultColor

\* ansi16Color(code)
ansi16Color(code) ==
  IF code >= 0 /\ code < Len(ansi16Colors)
  THEN ansi16Colors[code + 1]
  ELSE DefaultColor

\* uint8(n)
uint8(n) == n % 256

\* ansi256Color(code)
ansi256Color(code) ==
  IF code < 0 \/ code > 255 THEN DefaultColor
  ELSE IF code < 16 THEN ansi16Color(code)
  ELSE IF code <= 231
       THEN LET c == code - 16 IN
              NewColor(uint8((c \div 36) * 51), uint8(((c % 36) \div 6) * 51),
                       uint8((c % 6) * 51))
       ELSE LET gray == uint8((code - 232) * 10 + 8) IN NewColor(gray, gray, gray)

\* TerminalGrid.ClearLine(y)
ClearLine(g, y) ==
  IF y < 0 \/ y >= g.Height THEN g
  ELSE [g EXCEPT !.Cells[y] = [x \in 0..(g.Width - 1) |-> NewCell]]

\* ClearLine(y) for every y from lo to hi: the rows of the grid among them
\* are cleared and the others change nothing
ClearLines(g, lo, hi) ==
  [g EXCEPT !.Cells =
     [y \in 0..(g.Height - 1) |->
        IF lo <= y /\ y <= hi THEN ClearLine(g, y).Cells[y] ELSE g.Cells[y]]]

\* TerminalGrid.ClearFromCursor(x, y) indexes the row y with a negative x
ClearFromCursorFaults(g, x, y) == y >= 0 /\ y < g.Height /\ x < 0

\* TerminalGrid.ClearFromCursor(x, y), for x >= 0
ClearFromCursor(g, x, y) ==
  IF y < 0 \/ y >= g.Height THEN g
  ELSE [g EXCEPT !.Cells[y] =
          [i \in 0..(g.Width - 1) |-> IF i >= x THEN NewCell ELSE @[i]]]

\* for x := 0; x <= cursorX && x < Width; x++ { Cells[y][x] = NewCell() },
\* for a row y of the grid
ClearToCursor(g, x, y) ==
  [g EXCEPT !.Cells[y] =
     [i \in 0..(g.Width - 1) |-> IF i <= x THEN NewCell ELSE @[i]]]

\* TerminalGrid.Clear()
Clear(g) == ClearLines(g, 0, g.Height - 1)

\* the ansiParser ParseANSI starts with; fault is set when a step of the
\* parse panics
NewParser(g) ==
  [ nil |-> FALSE, grid |-> g, cursorX |-> Int64(0), cursorY |-> Int64(0),
    fgColor |-> DefaultColor, bgColor |-> DefaultColor, bold |-> FALSE,
    italic |-> FALSE, underline |-> FALSE, strikethrough |-> FALSE,
    fault |-> FALSE ]

\* the loop of handleSGR, at the code of index i (counted from 1)
RECURSIVE SGRLoop(_, _, _)
SGRLoop(p, codes, i) ==
  IF i > Len(codes) THEN p
  ELSE LET code == Clamp64(codes[i]) IN
    CASE code = 0 ->
           SGRLoop([p EXCEPT !.fgColor = DefaultColor, !.bgColor = DefaultColor,
                             !.bold = FALSE, !.italic = FALSE,
                             !.underline = FALSE, !.strikethrough = FALSE],
                   codes, i + 1)
      [] code = 1 -> SGRLoop([p EXCEPT !.bold = TRUE], codes, i + 1)
      [] code = 3 -> SGRLoop([p EXCEPT !.italic = TRUE], codes, i + 1)
      [] code = 4 -> SGRLoop([p EXCEPT !.underline = TRUE], codes, i + 1)
      [] code = 9 -> SGRLoop([p EXCEPT !.strikethrough = TRUE], codes, i + 1)
      [] code = 22 -> SGRLoop([p EXCEPT !.bold = FALSE], codes, i + 1)
      [] code = 23 -> SGRLoop([p EXCEPT !.italic = FALSE], codes, i + 1)
      [] code = 24 -> SGRLoop([p EXCEPT !.underline = FALSE], codes, i + 1)
      [] code = 29 -> SGRLoop([p EXCEPT !.strikethrough = FALSE], codes, i + 1)
      [] code \in 30..37 ->
           SGRLoop([p EXCEPT !.fgColor = ansi16Color(code - 30)], codes, i + 1)
      [] code = 38 ->
           IF i + 1 <= Len(codes) /\ codes[i + 1] = Int64(5) /\ i + 2 <= Len(codes)
           THEN SGRLoop([p EXCEPT !.fgColor = ansi256Color(Clamp64(codes[i + 2]))],
                        codes, i + 3)
           ELSE IF i + 1 <= Len(codes) /\ codes[i + 1] = Int64(2) /\ i + 4 <= Len(codes)
                THEN SGRLoop([p EXCEPT !.fgColor =
                                NewColor(uint8Of(codes[i + 2]),
                                         uint8Of(codes[i + 3]),
                                         uint8Of(codes[i + 4]))],
                             codes, i + 5)
                ELSE SGRLoop(p, codes, i + 1)
      [] code = 39 -> SGRLoop([p EXCEPT !.fgColor = DefaultColor], codes, i + 1)
      [] code \in 40..47 ->
           SGRLoop([p EXCEPT !.bgColor = ansi16Color(code - 40)], codes, i + 1)
      [] code = 48 ->
           IF i + 1 <= Len(codes) /\ codes[i + 1] = Int64(5) /\ i + 2 <= Len(codes)
           THEN SGRLoop([p EXCEPT !.bgColor = ansi256Color(Clamp64(codes[i + 2]))],
                        codes, i + 3)
           ELSE IF i + 1 <= Len(codes) /\ codes[i + 1] = Int64(2) /\ i + 4 <= Len(codes)
                THEN SGRLoop([p EXCEPT !.bgColor =
                                NewColor(uint8Of(codes[i + 2]),
                                         uint8Of(codes[i + 3]),
                                         uint8Of(codes[i + 4]))],
                             codes, i + 5)
                ELSE SGRLoop(p, codes, i + 1)
      [] code = 49 -> SGRLoop([p EXCEPT !.bgColor = DefaultColor], codes, i + 1)
      [] code \in 90..97 ->
           SGRLoop([p EXCEPT !.fgColor = ansi16Color(code - 90 + 8)], codes, i + 1)
      [] code \in 100..107 ->
           SGRLoop([p EXCEPT !.bgColor = ansi16Color(code - 100 + 8)], codes, i + 1)
      [] OTHER -> SGRLoop(p, codes, i + 1)

\* handleSGR(params)
handleSGR(p, params) ==
  SGRLoop(p, parseSGRParams(IF params = <<>> THEN <<"0">> ELSE params), 1)

\* handleCursorPosition(params)
handleCursorPosition(p, params) ==
  LET coords == parseSGRParams(params)
      y == IF Len(coords) >= 1 THEN Sub64(coords[1], Int64(1)) ELSE Int64(0)
      x == IF Len(coords) >= 2 THEN Sub64(coords[2], Int64(1)) ELSE Int64(0)
  IN  IF Len(coords) = 0
      THEN [p EXCEPT !.cursorX = Int64(0), !.cursorY = Int64(0)]
      ELSE [p EXCEPT !.cursorY = IF Negative64(y) THEN Int64(0) ELSE y,
                     !.cursorX = IF Negative64(x) THEN Int64(0) ELSE x]

\* the n of the cursor movements: 1 unless params is a positive number
moveCount(params) ==
  IF params # <<>> /\ Atoi(params).ok /\ Clamp64(Atoi(params).num) > 0
  THEN Atoi(params).num ELSE Int64(1)

\* handleCursorUp(params)
handleCursorUp(p, params) ==
  LET y == Sub64(p.cursorY, moveCount(params))
  IN  [p EXCEPT !.cursorY = IF Negative64(y) THEN Int64(0) ELSE y]

\* handleCursorDown(params)
handleCursorDown(p, params) ==
  [p EXCEPT !.cursorY = Add64(@, moveCount(params))]

\* handleCursorForward(params)
handleCursorForward(p, params) ==
  [p EXCEPT !.cursorX = Add64(@, moveCount(params))]

\* handleCursorBack(params)
handleCursorBack(p, params) ==
  LET x == Sub64(p.cursorX, moveCount(params))
  IN  [p EXCEPT !.cursorX = IF Negative64(x) THEN Int64(0) ELSE x]

\* the mode of the erase sequences: 0 unless params is a number
eraseMode(params) ==
  IF params # <<>> /\ Atoi(params).ok THEN Clamp64(Atoi(params).num) ELSE 0

\* handleEraseDisplay(params).  Mode 0 panics in ClearFromCursor when the
\* cursor is in a row of the grid at a negative column; its loop starts at
\* cursorY + 1, which has wrapped around when the cursor is in the last row
\* an int can count, and ends at the height of the grid: written here is the
\* grid it leaves.  In mode 1 the row of the cursor is indexed without a
\* test whenever the loop over the columns has a round, which panics when
\* the cursor is above or below the grid
handleEraseDisplay(p, params) ==
  LET mode == eraseMode(params)
      g == p.grid
      x == Clamp64(p.cursorX)
      y == Clamp64(p.cursorY)
      next == Clamp64(Add64(p.cursorY, Int64(1)))
  IN  CASE mode = 0 ->
             IF ClearFromCursorFaults(g, x, y)
             THEN [p EXCEPT !.fault = TRUE]
             ELSE [p EXCEPT !.grid = ClearLines(ClearFromCursor(g, x, y),
                                                next, g.Height - 1)]
        [] mode = 1 ->
             LET rows == ClearLines(g, 0, y - 1) IN
               IF x >= 0 /\ g.Width > 0 /\ (y < 0 \/ y >= g.Height)
               THEN [p EXCEPT !.grid = rows, !.fault = TRUE]
               ELSE IF y < 0 \/ y >= g.Height
                    THEN [p EXCEPT !.grid = rows]
                    ELSE [p EXCEPT !.grid = ClearToCursor(rows, x, y)]
        [] mode \in {2, 3} -> [p EXCEPT !.grid = Clear(g)]
        [] OTHER -> p

\* handleEraseLine(params): mode 0 panics in ClearFromCursor when the
\* column of the cursor is negative
handleEraseLine(p, params) ==
  LET mode == eraseMode(params)
      g == p.grid
      x == Clamp64(p.cursorX)
      y == Clamp64(p.cursorY)
  IN  IF y < 0 \/ y >= g.Height THEN p
      ELSE CASE mode = 0 ->
                  IF ClearFromCursorFaults(g, x, y)
                  THEN [p EXCEPT !.fault = TRUE]
                  ELSE [p EXCEPT !.grid = ClearFromCursor(g, x, y)]
             [] mode = 1 -> [p EXCEPT !.grid = ClearToCursor(g, x, y)]
             [] mode = 2 -> [p EXCEPT !.grid = ClearLine(g, y)]
             [] OTHER -> p

\* handleEscapeSequence(seq): the last character is the command, the rest
\* the parameters
handleEscapeSequence(p, seq) ==
  IF Len(seq) = 0 THEN p
  ELSE LET command == seq[Len(seq)]
           params == SubSeq(seq, 1, Len(seq) - 1)
       IN  CASE command = "m" -> handleSGR(p, params)
             [] command \in {"H", "f"} -> handleCursorPosition(p, params)
             [] command = "A" -> handleCursorUp(p, params)
             [] command = "B" -> handleCursorDown(p, params)
             [] command = "C" -> handleCursorForward(p, params)
             [] command = "D" -> handleCursorBack(p, params)
             [] command = "J" -> handleEraseDisplay(p, params)
             [] command = "K" -> handleEraseLine(p, params)
             [] OTHER -> p

\* findSequenceEnd(runes, start), with indices counted from 1: the index of
\* the first letter at or after start, or start when there is none
RECURSIVE findFrom(_, _, _)
findFrom(rs, start, i) ==
  IF i > Len(rs) THEN start
  ELSE IF rs[i] \in Letters THEN i ELSE findFrom(rs, start, i + 1)

findSequenceEnd(rs, start) == findFrom(rs, start, start)

\* Cell{Rune: ch, FgColor: p.fgColor, ..., Strikethrough: p.strikethrough}
writtenCell(p, ch) ==
  [ Rune |-> ch, FgColor |-> p.fgColor, BgColor |-> p.bgColor,
    Bold |-> p.bold, Italic |-> p.italic, Underline |-> p.underline,
    Strikethrough |-> p.strikethrough ]

\* the switch of parse leaving the cursor where it is after a write
regularChar_NoAdvance(p, ch) ==
  CASE ch = LF -> [p EXCEPT !.cursorX = Int64(0), !.cursorY = Add64(@, Int64(1))]
    [] ch = CR -> [p EXCEPT !.cursorX = Int64(0)]
    [] ch = TAB ->
         [p EXCEPT !.cursorX = Mul64(Add64(Quo64(@, 8), Int64(1)), 8)]
    [] OTHER ->
         LET x == Clamp64(p.cursorX)
             y == Clamp64(p.cursorY)
         IN  IF y < p.grid.Height /\ x < p.grid.Width
             THEN IF x < 0 \/ y < 0
                  THEN [p EXCEPT !.fault = TRUE]
                  ELSE [p EXCEPT !.grid.Cells[y][x] =
                          [ Rune |-> ch, FgColor |-> p.fgColor,
                            BgColor |-> p.bgColor, Bold |-> p.bold,
                            Italic |-> p.italic, Underline |-> p.underline,
                            Strikethrough |-> p.strikethrough ]]
             ELSE p

\* the switch of parse for a regular character.  The test before the write
\* has no lower bounds: a cursor with a negative coordinate passes it and
\* the write panics
regularChar(p, ch) ==
  CASE ch = LF -> [p EXCEPT !.cursorX = Int64(0), !.cursorY = Add64(@, Int64(1))]
    [] ch = CR -> [p EXCEPT !.cursorX = Int64(0)]
    [] ch = TAB ->
         [p EXCEPT !.cursorX = Mul64(Add64(Quo64(@, 8), Int64(1)), 8)]
    [] OTHER ->
         LET x == Clamp64(p.cursorX)
             y == Clamp64(p.cursorY)
         IN  IF y < p.grid.Height /\ x < p.grid.Width
             THEN IF x < 0 \/ y < 0
                  THEN [p EXCEPT !.fault = TRUE]
                  ELSE [p EXCEPT !.grid.Cells[y][x] = writtenCell(p, ch),
                                 !.cursorX = Add64(@, Int64(1))]
             ELSE [p EXCEPT !.cursorX = Add64(@, Int64(1))]

\* line wrapping, after every regular character
wrap(p) ==
  IF Clamp64(p.cursorX) >= p.grid.Width
  THEN [p EXCEPT !.cursorX = Int64(0), !.cursorY = Add64(@, Int64(1))]
  ELSE p

\* the size of the grid ParseANSI is asked for
ParseWidth == 3
ParseHeight == 2

\* the number of pieces an input string is put together from
MaxChunks == 3

\* pieces of the strings given to ParseANSI: text, control characters,
\* broken sequences and cursor movements
TextChunks ==
  { <<"R">>, <<"!">>, <<"a", "b">>, <<LF>>, <<CR>>, <<TAB>>, <<ESC>>,
    <<ESC, "[">>, <<ESC, "[", "?">>,
    <<ESC, "[", "A">>, <<ESC, "[", "9", "B">>, <<ESC, "[", "C">>,
    <<ESC, "[", "2", "D">>, <<ESC, "[", "2", ";", "2", "H">>,
    <<ESC, "[", "?", "f">> }

\* a number of 20 digits, too large for an int
LongNumber == [ i \in 1..20 |-> "9" ]

\* pieces of text, cursor movements and erase sequences
EraseChunks ==
  { <<"R">>, <<LF>>, <<ESC, "[", "9", "B">>, <<ESC, "[", "C">>,
    <<ESC, "[", "2", ";", "2", "H">>,
    <<ESC, "[", "J">>, <<ESC, "[", "1", "J">>, <<ESC, "[", "2", "J">>,
    <<ESC, "[">> \o LongNumber \o <<"J">>,
    <<ESC, "[", "K">>, <<ESC, "[", "1", "K">>, <<ESC, "[", "2", "K">> }

\* pieces of text and of cursor movements by the largest and to the
\* smallest number an int holds
WrapChunks ==
  { <<"R">>, <<LF>>, <<TAB>>,
    <<ESC, "[">> \o MaxIntDigits \o <<"B">>,
    <<ESC, "[">> \o MaxIntDigits \o <<"C">>,
    <<ESC, "[", "-">> \o MinIntDigits \o <<"H">>,
    <<ESC, "[", "J">>, <<ESC, "[", "K">> }

\* pieces of text and SGR sequences
SgrChunks ==
  { <<"R">>,
    <<ESC, "[", "m">>, <<ESC, "[", "0", "m">>, <<ESC, "[", "1", ";", "4", "m">>,
    <<ESC, "[", "3", ";", "9", "m">>, <<ESC, "[", "4", "2", "m">>,
    <<ESC, "[", "9", "1", "m">>, <<ESC, "[", "3", "8", ";", "5", ";", "9", "m">>,
    <<ESC, "[", "4", "8", ";", "2", ";", "1", ";", "2", ";", "3", "m">> }
  \cup { <<ESC, "[", "3", d, "m">> : d \in {"0", "1", "2", "3", "4", "5", "6", "7"} }

\* the strings put together from at most n pieces of cs
RECURSIVE Joined(_, _)
Joined(cs, n) ==
  IF n = 0 THEN { <<>> }
  ELSE LET shorter == Joined(cs, n - 1)
       IN  shorter \cup { s \o c : s \in shorter, c \in cs }

\* the strings given to ParseANSI, of at most n pieces
ParseInputs(n) ==
  Joined(TextChunks, n) \cup Joined(EraseChunks, n) \cup Joined(SgrChunks, n)
    \cup Joined(WrapChunks, n)

\* a string and a size about to be given to ParseANSI
ParseInit ==
  /\ NoProgram
  /\ tg = NilGrid
  /\ other = NilGrid
  /\ regions = <<>>
  /\ diffPc = "idle"
  /\ runes \in ParseInputs(MaxChunks)
  /\ size \in { <<ParseWidth, ParseHeight>> } \cup
               (IF Len(runes) <= 1 THEN { <<0, ParseHeight>> } ELSE {})
  /\ ri = 0
  /\ parser = [nil |-> TRUE]
  /\ parsePc = "ready"
  /\ ti = [nil |-> TRUE]

\* ParseANSI up to parser.parse(output): the grid is created, and nil is
\* returned when it could not be
ParseCall ==
  /\ parsePc = "ready"
  /\ LET grid == NewTerminalGrid(size[1], size[2]) IN
       IF grid.nil
       THEN /\ parsePc' = "done"
            /\ UNCHANGED <<parser, ri>>
       ELSE /\ parser' = NewParser(grid)
            /\ ri' = 1
            /\ parsePc' = "parsing"
  /\ UNCHANGED <<tg, other, regions, diffPc, runes, size, ti>>
  /\ UNCHANGED <<execVars, progVars, runVars, tickVars, frameVars, inputVars>>

\* one round of the loop of parse: an escape sequence, or a regular
\* character followed by the wrapping test.  When ESC [ ends the string,
\* runes[i+2 : seqEnd+1] reaches one rune behind the length of the slice:
\* that panics when the slice has no spare capacity and reads a zero rune
\* when it has
ParseStep ==
  /\ parsePc = "parsing"
  /\ ri <= Len(runes)
  /\ IF runes[ri] = ESC /\ ri + 1 <= Len(runes) /\ runes[ri + 1] = "["
     THEN LET seqEnd == findSequenceEnd(runes, ri + 2) IN
            IF seqEnd > Len(runes)
            THEN \E spare \in BOOLEAN :
                   /\ parser' = IF spare THEN handleEscapeSequence(parser, <<NUL>>)
                                ELSE [parser EXCEPT !.fault = TRUE]
                   /\ ri' = seqEnd + 1
            ELSE /\ parser' = handleEscapeSequence(parser,
                                                   SubSeq(runes, ri + 2, seqEnd))
                 /\ ri' = seqEnd + 1
     ELSE /\ parser' = LET q == regularChar(parser, runes[ri])
                        IN  IF q.fault THEN q ELSE wrap(q)
          /\ ri' = ri + 1
  /\ parsePc' = IF ~parser'.fault THEN "parsing"
                ELSE IF /\ runes[ri] = ESC
                        /\ ri + 1 <= Len(runes)
                        /\ runes[ri + 1] = "["
                        /\ findSequenceEnd(runes, ri + 2) > Len(runes)
                THEN "sliceFault" ELSE "fault"
  /\ UNCHANGED <<tg, other, regions, diffPc, runes, size, ti>>
  /\ UNCHANGED <<execVars, progVars, runVars, tickVars, frameVars, inputVars>>

\* the loop of parse is over and ParseANSI returns the grid
ParseReturn ==
  /\ parsePc = "parsing"
  /\ ri > Len(runes)
  /\ parsePc' = "done"
  /\ UNCHANGED <<tg, other, regions, diffPc, runes, ri, parser, size, ti>>
  /\ UNCHANGED <<execVars, progVars, runVars, tickVars, frameVars, inputVars>>

ParseNext ==
  \/ ParseCall
  \/ ParseStep
  \/ ParseReturn

ParseSpec == ParseInit /\ [][ParseNext]_vars

(***************************************************************************)
(* The text input component (package textinput).  The value is a slice of  *)
(* runes: the runes up to its length, and the capacity of the array        *)
(* behind it.  append writes into that array while the capacity suffices   *)
(* and into a new, larger array otherwise, whose capacity is the one the   *)
(* gc runtime gives it: twice the old capacity, or the length asked for    *)
(* when that is more, rounded up to a size class of the allocator.         *)
(***************************************************************************)
\* number of key messages given to Update and of calls of the other methods
MaxKeys == 3
\* the size classes of the allocator, in bytes, up to 1024
SizeClasses ==
  { 8, 16, 24, 32, 48, 64, 80, 96, 112, 128, 144, 160, 176, 192, 208, 224,
    240, 256, 288, 320, 352, 384, 416, 448, 480, 512, 576, 640, 704, 768,
    896, 1024 }

\* roundupsize(reqSize): the bytes an allocation of reqSize bytes takes
roundupsize(reqSize) ==
  IF reqSize = 0 THEN 0
  ELSE CHOOSE c \in SizeClasses :
         c >= reqSize /\ \A d \in SizeClasses : d >= reqSize => c <= d

\* the capacity of []rune(s) for a string of n runes, a rune taking 4 bytes
runeSliceCap(n) == roundupsize(4 * n) \div 4

\* growslice: the capacity of the array append allocates for newLen runes
\* when an array of capacity oldCap, below 256, does not hold them
growslice(newLen, oldCap) ==
  LET newcap == IF newLen > 2 * oldCap THEN newLen ELSE 2 * oldCap
  IN  roundupsize(4 * newcap) \div 4
\* the CharLimit and the Width of an input that has them
TextLimit == 3
TextWidth == 2

\* handleOverflow: the window of the value that is shown
handleOverflow(m) ==
  IF m.Width <= 0 \/ Len(m.value) <= m.Width
  THEN [m EXCEPT !.offset = 0, !.offsetRight = Len(m.value)]
  ELSE LET a == IF m.offsetRight > Len(m.value)
                THEN [m EXCEPT !.offsetRight = Len(m.value)] ELSE m
           b == IF a.pos < a.offset
                THEN [a EXCEPT !.offset = a.pos,
                               !.offsetRight = IF a.pos + a.Width > Len(a.value)
                                               THEN Len(a.value)
                                               ELSE a.pos + a.Width]
                ELSE a
       IN  IF b.pos >= b.offsetRight
           THEN [b EXCEPT !.offsetRight = b.pos + 1,
                          !.offset = IF b.pos + 1 - b.Width < 0 THEN 0
                                     ELSE b.pos + 1 - b.Width]
           ELSE b

\* SetCursor(pos): the position is clamped to the value
SetCursor(m, pos) ==
  handleOverflow([m EXCEPT !.pos = IF pos < 0 THEN 0
                                   ELSE IF pos > Len(m.value) THEN Len(m.value)
                                   ELSE pos])

\* SetValue(s): runes := []rune(s) is a new array, of which the value is
\* the whole or the first CharLimit runes
SetValue(m, s) ==
  LET a == [m EXCEPT !.value = IF m.CharLimit > 0 /\ Len(s) > m.CharLimit
                               THEN SubSeq(s, 1, m.CharLimit) ELSE s,
                     !.cap = runeSliceCap(Len(s))]
      b == IF a.pos > Len(a.value) THEN SetCursor(a, Len(a.value)) ELSE a
  IN  handleOverflow(b)

\* New(), Focus() when focused, and the exported fields set by the caller
New(limit, width, focused) ==
  [ nil |-> FALSE, value |-> <<>>, cap |-> 0, pos |-> 0, focus |-> focused,
    CharLimit |-> limit, Width |-> width, offset |-> 0, offsetRight |-> 0,
    keys |-> 0, calls |-> 0, msg |-> [Type |-> "none", Runes |-> <<>>] ]

\* the runes insertRunes is left with after the check of CharLimit
limited(m, rs) ==
  IF m.CharLimit > 0 /\ Len(rs) > m.CharLimit - Len(m.value)
  THEN SubSeq(rs, 1, m.CharLimit - Len(m.value))
  ELSE rs

\* insertRunes(runes): head and tail are slices of the array of m.value;
\* append(head, runes...) writes the runes into that array behind head when
\* its capacity suffices, which is where tail lies, and tail is read after
\* that; an append that finds no room allocates a new array
insertRunes(m, rs) ==
  IF m.CharLimit > 0 /\ m.CharLimit - Len(m.value) <= 0 THEN m
  ELSE LET r == limited(m, rs)
           v == m.value
           p == m.pos
           inPlace == p + Len(r) <= m.cap
           array == [ i \in 1..Len(v) |->
                        IF inPlace /\ p < i /\ i <= p + Len(r)
                        THEN r[i - p] ELSE v[i] ]
           tail == SubSeq(array, p + 1, Len(v))
           head == SubSeq(v, 1, p) \o r
           cap1 == IF inPlace THEN m.cap ELSE growslice(Len(head), m.cap)
           value == head \o tail
       IN  [m EXCEPT !.value = value,
                     !.cap = IF Len(value) <= cap1 THEN cap1
                             ELSE growslice(Len(value), cap1),
                     !.pos = p + Len(r)]

\* the key messages given to Update
KeyTypes ==
  { "backspace", "delete", "left", "right", "home", "end", "ctrlC", "other" }

TypedRunes == { <<"x">>, <<"x", "y">> }

KeyMsgs ==
  { [Type |-> k, Runes |-> <<>>] : k \in KeyTypes } \cup
  { [Type |-> "runes", Runes |-> rs] : rs \in TypedRunes }

\* the switch of Update over msg.Type
keySwitch(m, msg) ==
  LET v == m.value
      p == m.pos
  IN  CASE msg.Type = "backspace" ->
             IF Len(v) > 0 /\ p > 0
             THEN SetCursor([m EXCEPT !.value = SubSeq(v, 1, p - 1) \o
                                                SubSeq(v, p + 1, Len(v))], p - 1)
             ELSE m
        [] msg.Type = "delete" ->
             IF Len(v) > 0 /\ p < Len(v)
             THEN [m EXCEPT !.value = SubSeq(v, 1, p) \o SubSeq(v, p + 2, Len(v))]
             ELSE m
        [] msg.Type = "left" -> IF p > 0 THEN SetCursor(m, p - 1) ELSE m
        [] msg.Type = "right" -> IF p < Len(v) THEN SetCursor(m, p + 1) ELSE m
        [] msg.Type = "home" -> SetCursor(m, 0)
        [] msg.Type = "end" -> SetCursor(m, Len(v))
        [] msg.Type = "runes" -> insertRunes(m, msg.Runes)
        [] OTHER -> m

\* Update(msg): nothing without the focus and nothing more on Ctrl+C;
\* handleOverflow after every other key
Update(m, msg) ==
  IF ~m.focus \/ msg.Type = "ctrlC" THEN m
  ELSE handleOverflow(keySwitch(m, msg))

\* the values given to SetValue
TextValues == { <<>>, <<"a", "b">>, <<"a", "b", "c">>, <<"a", "b", "c", "d">> }

\* a text input made with New, with or without the focus, a CharLimit and a
\* Width, and a value set with SetValue
TextInit ==
  /\ NoProgram
  /\ tg = NilGrid
  /\ other = NilGrid
  /\ regions = <<>>
  /\ diffPc = "idle"
  /\ runes = <<>>
  /\ ri = 0
  /\ parser = [nil |-> TRUE]
  /\ parsePc = "idle"
  /\ size = <<0, 0>>
  /\ \E limit \in {0, TextLimit}, width \in {0, TextWidth}, focused \in BOOLEAN,
        s \in TextValues :
       ti = SetValue(New(limit, width, focused), s)

\* Focus(): the input takes the focus
Focus(m) == [m EXCEPT !.focus = TRUE]

\* Blur(): the input gives up the focus
Blur(m) == [m EXCEPT !.focus = FALSE]

\* Reset(): the value is nil and the cursor at 0
Reset(m) == SetCursor([m EXCEPT !.value = <<>>, !.cap = 0], 0)

\* CursorStart() and CursorEnd()
CursorStart(m) == SetCursor(m, 0)
CursorEnd(m) == SetCursor(m, Len(m.value))

\* the application calls one of the methods that take no argument
TextCall ==
  /\ ~ti.nil
  /\ ti.keys + ti.calls < MaxKeys
  /\ \E after \in { Focus(ti), Blur(ti), Reset(ti), CursorStart(ti),
                     CursorEnd(ti) } :
       ti' = [after EXCEPT !.calls = ti.calls + 1]
  /\ UNCHANGED <<tg, other, regions, diffPc, runes, ri, parser, parsePc, size>>
  /\ UNCHANGED <<execVars, progVars, runVars, tickVars, frameVars, inputVars>>

\* the application calls SetValue(s)
TextSetValue ==
  /\ ~ti.nil
  /\ ti.keys + ti.calls < MaxKeys
  /\ \E s \in TextValues :
       ti' = [SetValue(ti, s) EXCEPT !.calls = ti.calls + 1]
  /\ UNCHANGED <<tg, other, regions, diffPc, runes, ri, parser, parsePc, size>>
  /\ UNCHANGED <<execVars, progVars, runVars, tickVars, frameVars, inputVars>>

\* the application calls SetCursor(pos), with a position that may lie
\* before the value or behind it
TextSetCursor ==
  /\ ~ti.nil
  /\ ti.keys + ti.calls < MaxKeys
  /\ \E pos \in (0 - 1)..(Len(ti.value) + 1) :
       ti' = [SetCursor(ti, pos) EXCEPT !.calls = ti.calls + 1]
  /\ UNCHANGED <<tg, other, regions, diffPc, runes, ri, parser, parsePc, size>>
  /\ UNCHANGED <<execVars, progVars, runVars, tickVars, frameVars, inputVars>>

\* m, cmd = m.Update(msg) for a key message
TextUpdate ==
  /\ ~ti.nil
  /\ ti.keys + ti.calls < MaxKeys
  /\ \E msg \in KeyMsgs :
       ti' = [Update(ti, msg) EXCEPT !.keys = ti.keys + 1, !.msg = msg]
  /\ UNCHANGED <<tg, other, regions, diffPc, runes, ri, parser, parsePc, size>>
  /\ UNCHANGED <<execVars, progVars, runVars, tickVars, frameVars, inputVars>>

TextNext ==
  \/ TextUpdate
  \/ TextCall
  \/ TextSetValue
  \/ TextSetCursor

TextSpec == TextInit /\ [][TextNext]_vars

(***************************************************************************)
(* What the history variables say.                                         *)
(***************************************************************************)
\* the command results in a sequence of messages (timer ticks and the
\* messages of Program.Send are not command results)
RECURSIVE MsgBag(_)
MsgBag(ch) ==
  IF ch = <<>> THEN EmptyBag
  ELSE IF Head(ch) \in {TickMsg, SentMsg} THEN MsgBag(Tail(ch))
  ELSE Put(MsgBag(Tail(ch)), Head(ch))

\* every command result placed on the channel so far
Delivered == MsgBag(msgChan) (+) consumed

\* the messages the leaves of a command produce: one per leaf that returns
\* a message, one ErrorMsg per leaf that panics, none for nil
RECURSIVE ExpectedMsgs(_)
ExpectedOfSeq(cs) ==
  LET RECURSIVE Sum(_)
      Sum(i) == IF i > Len(cs) THEN EmptyBag ELSE ExpectedMsgs(cs[i]) (+) Sum(i + 1)
  IN Sum(1)
ExpectedMsgs(c) ==
  CASE c.kind = "leaf" -> IF c.msg = NilMsg THEN EmptyBag ELSE SetToBag({c.msg})
    [] c.kind = "panic" -> SetToBag({ErrorMsg})
    [] c.kind = "batch" -> ExpectedOfSeq(c.cmds)
    [] OTHER -> EmptyBag

\* the non-nil commands in the tree of a command: each is to be run once
RECURSIVE SubCmds(_)
SubCmdsOfSeq(cs) ==
  LET RECURSIVE Sum(_)
      Sum(i) == IF i > Len(cs) THEN EmptyBag ELSE SubCmds(cs[i]) (+) Sum(i + 1)
  IN Sum(1)
SubCmds(c) ==
  CASE c.kind = "nil" -> EmptyBag
    [] c.kind = "batch" -> Put(SubCmdsOfSeq(c.cmds), c)
    [] OTHER -> SetToBag({c})

\* the sum of f(c) over a bag of commands
RECURSIVE BagSum(_, _)
BagSum(f(_), b) ==
  IF b = EmptyBag THEN EmptyBag
  ELSE LET c == CHOOSE x \in BagToSet(b) : TRUE
       IN f(c) (+) BagSum(f, Take(b, c))

Expected == BagSum(ExpectedMsgs, executed)
ToRun == BagSum(SubCmds, executed)

NestedBatch == Batch(<<Leaf("b"), NilCmd, Batch(<<Leaf("c")>>)>>)

(***************************************************************************)
(* Properties of the executor.                                             *)
(***************************************************************************)
\* C2: when Shutdown has returned and the root context was never cancelled,
\* the command results placed on the channel are exactly the messages of the
\* leaves of the executed commands (nested batches included), each once; a
\* batch marker is never placed on the channel.
C2_BatchDelivery ==
  /\ \A i \in DOMAIN msgChan : msgChan[i] # batchMsg
  /\ ~BagIn(batchMsg, consumed)
  /\ (shutdown = "returned" /\ ~ctxDone) => Delivered = Expected

C2_Witness ==
  /\ shutdown = "returned"
  /\ ~ctxDone
  /\ BagIn(NestedBatch, executed)
  /\ BagIn("b", Delivered)
  /\ BagIn("c", Delivered)

\* C3: once Shutdown has returned no goroutine of the executor is left, so
\* nothing is placed on the channel by the executor any more.
C3_NoTaskAfterShutdown ==
  shutdown = "returned" => (tasks = EmptyBag /\ wg = 0)

C3_Witness ==
  /\ shutdown = "returned"
  /\ tickers > 0
  /\ \E i \in DOMAIN msgChan : msgChan[i] = TickMsg
  /\ BagIn("a", Delivered)

\* C8: a goroutine is started, and a body run, for non-nil commands only
\* (Execute(nil) and a nil batch entry start nothing); a nil message is
\* never placed on the channel; and the non-nil sibling of a nil batch entry
\* is still delivered exactly once.
C8_NilIsNoOp ==
  /\ \A r \in Live : r.cmd.kind # "nil"
  /\ ~BagIn(NilCmd, invoked)
  /\ \A i \in DOMAIN msgChan : msgChan[i] # NilMsg
  /\ ~BagIn(NilMsg, consumed)
  /\ (shutdown = "returned" /\ ~ctxDone)
        => CopiesIn("b", Delivered) = CopiesIn(NestedBatch, executed)

C8_Witness ==
  /\ shutdown = "returned"
  /\ ~ctxDone
  /\ executed = SetToBag({NilCmd, NestedBatch})
  /\ Delivered = SetToBag({"b", "c"})

\* C9: every command body is invoked exactly once, and when Shutdown has
\* returned without cancellation and nothing was taken from the channel, the
\* channel holds exactly the produced messages, none lost, none twice.
C9_ExactlyOnce ==
  /\ invoked \sqsubseteq ToRun
  /\ shutdown = "returned" => invoked = ToRun
  /\ (shutdown = "returned" /\ ~ctxDone /\ consumed = EmptyBag)
        => MsgBag(msgChan) = Expected

C9_Witness ==
  /\ shutdown = "returned"
  /\ ~ctxDone
  /\ consumed = EmptyBag
  /\ executed = SetToBag({Leaf("a"), PanicCmd})
  /\ Len(msgChan) = 2

\* C10: a panic in a command body does not end the process; it becomes one
\* ErrorMsg on the channel, the panicking goroutine completes (Shutdown
\* returns) and the other commands still deliver.
C10_PanicIsolated ==
  /\ ~crashed
  /\ CopiesIn(ErrorMsg, Delivered) <= CopiesIn(PanicCmd, invoked)
  /\ (shutdown = "returned" /\ ~ctxDone)
        => CopiesIn(ErrorMsg, Delivered) = CopiesIn(PanicCmd, executed)

C10_Witness ==
  /\ shutdown = "returned"
  /\ ~ctxDone
  /\ BagIn(PanicCmd, executed)
  /\ BagIn(ErrorMsg, Delivered)
  /\ BagIn("a", Delivered)

\* C4 (as claimed): once Shutdown waits it returns, whatever the
\* interleaving and the occupancy of the channel, with nobody obliged to
\* cancel the root context or to receive from the channel.
C4_ShutdownReturns ==
  (shutdown = "waiting") ~> (shutdown = "returned")

\* C5 (as claimed): deliverMessage never blocks; a goroutine at its select
\* can always complete it.
C5_DeliverNeverBlocks ==
  \A r \in Live :
    r.pc \in {"deliver", "tdeliver"} => deliverMessage(r.msg, msgChan, ctxDone) # {}

\* C6 (as claimed): a message whose command body returned after the root
\* cancellation is never placed on the channel.
C6_LateResultDropped ==
  [][\A r \in Live : (r.pc = "deliver" /\ r.late /\ Deliver(r)) => msgChan' = msgChan]_vars

\* C7: once the root context is cancelled no select on the channel stays
\* blocked: the call of Program.Send returns and the goroutines at the select
\* of deliverMessage leave it, even when the channel is full and nothing is
\* received.
C7_CancelUnblocks ==
  /\ (ctxDone /\ sendPc = "select") ~> (sendPc = "idle")
  /\ (ctxDone /\ \E r \in Live : r.pc \in {"deliver", "tdeliver"})
        ~> (\A r \in Live : r.pc \notin {"deliver", "tdeliver"})

C7_Witness ==
  /\ ctxDone
  /\ Len(msgChan) = ChanCap
  /\ sendPc = "select"
  /\ \E r \in Live : r.pc = "deliver"
  /\ \E r \in Live : r.pc = "tdeliver"

\* C1: calls of the model's Update never overlap: whenever a goroutine is
\* inside Update it holds the program's mutex, so no two goroutines are
\* inside Update at once.
C1_UpdateSerialized ==
  /\ Cardinality(updating) <= 1
  /\ \A g \in updating : pmu = g

\* the handler goroutine waits for the mutex while the event loop is inside
\* an Update call of Redraw
C1_Witness ==
  /\ hpc = "lock"
  /\ rpc = "inUpdate"
  /\ updating = {EventLoop}
  /\ pmu = EventLoop

\* C11: a panic of the function passed to Every is contained: it never
\* ends the process.
C11_TimerFaultContained == ~crashed

(***************************************************************************)
(* What the histories of the tick say.                                     *)
(***************************************************************************)
\* the number of Update calls made for the k-th dequeued message
UpdateCount(k) == Cardinality({ i \in 1..Len(updates) : updates[i].seq = k })

\* the dequeued messages that are not quit messages
Ordinary == { k \in 1..Len(dequeued) : dequeued[k] # quitMsg }

\* C14: when the draining loop dequeues a quit message the tick ends at
\* once with termination requested: the quit message is the last message
\* dequeued, no Update call is made for it or after it, and View is not
\* called in that tick.
C14_QuitEndsTick ==
  sawQuit =>
    /\ rpc = "idle"
    /\ pmu # EventLoop
    /\ ctxDone
    /\ displayExit
    /\ pending = <<>>
    /\ view = NoView
    /\ dequeued[Len(dequeued)] = quitMsg
    /\ UpdateCount(Len(dequeued)) = 0

\* a quit message has been dequeued with another message still behind it
C14_Witness ==
  /\ sawQuit
  /\ msgChan # <<>>
  /\ Len(dequeued) >= 2

\* C15: the dequeued messages reach Update in the order they were dequeued.
C15_FifoOrder ==
  \A i, j \in 1..Len(updates) :
    (i < j /\ updates[i].seq > 0 /\ updates[j].seq > 0)
      => updates[i].seq < updates[j].seq

\* two dequeued messages have been passed to Update, with an Update call
\* for a message that was not dequeued among the calls
C15_Witness ==
  /\ \E i, j \in 1..Len(updates) :
       i < j /\ updates[i].seq > 0 /\ updates[j].seq > 0
  /\ \E i \in 1..Len(updates) : updates[i].seq = 0

\* C16 as stated: between ticks every dequeued message that is not a quit
\* message has been passed to exactly one Update call.
C16_ExactlyOnce ==
  rpc = "idle" => \A k \in Ordinary : UpdateCount(k) = 1

\* C16: no dequeued message is passed to Update twice; between ticks every
\* dequeued message has been passed to Update once, except the messages
\* dequeued in the tick that then dequeues a quit message: these, the last
\* ones dequeued, are discarded.
C16_ExactlyOnceUnlessQuit ==
  /\ \A k \in 1..Len(dequeued) : UpdateCount(k) <= 1
  /\ (rpc = "idle" /\ ~sawQuit) => \A k \in Ordinary : UpdateCount(k) = 1
  /\ rpc = "idle" =>
       \A k, l \in Ordinary : (k < l /\ UpdateCount(k) = 0) => UpdateCount(l) = 0

\* a dequeued message has been applied, and a later tick has discarded
\* another one because a quit message followed it
C16_Witness ==
  /\ rpc = "idle"
  /\ sawQuit
  /\ \E k \in Ordinary : UpdateCount(k) = 1
  /\ \E k \in Ordinary : UpdateCount(k) = 0

\* C18: once an Update call of a tick has panicked, no further Update call
\* is made in that tick.
C18_FaultStopsTick == tickFault => rpc # "inUpdate"

\* C19: a panic of View is caught inside Redraw: the view of the tick is
\* the empty string, termination is requested, the model is what it was,
\* and Redraw goes on to its end.
C19_ViewFaultContained ==
  [][ (viewFault' /\ ~viewFault) =>
        /\ view' = ""
        /\ ctxDone'
        /\ displayExit'
        /\ ~crashed'
        /\ updates' = updates
        /\ rpc' = "render" ]_vars

\* View has panicked in a tick that applied a message
C19_Witness ==
  /\ viewFault
  /\ view = ""
  /\ rpc = "render"
  /\ updates # <<>>

\* C13: once Program.Quit has been called while the program is inside its
\* event loop, Run eventually returns (unless the process has crashed).
C13_QuitTerminates ==
  (quitCalls > 0 /\ runPc = "loop") ~> (runPc = "returned" \/ crashed)

\* C12: a second or later call of Program.Quit changes nothing and does
\* not fault.
C12_QuitIdempotent ==
  [][ (quitCalls' > quitCalls /\ quitCalls >= 1) =>
        /\ crashed' = crashed
        /\ ctxDone' = ctxDone
        /\ quitClosed' = quitClosed ]_vars

\* C17: when Init has panicked, Run enters the event loop only with
\* termination already requested.
C17_InitFaultQuits ==
  (initFault /\ runPc = "loop") => (ctxDone /\ displayExit)

\* the options the specification calls invalid
BadOptions ==
  \/ options.width <= 0
  \/ options.height <= 0
  \/ options.fontSize <= 0
  \/ options.fps < 0
  \/ options.title = ""
  \/ options.family = ""

\* C20: with invalid options Run returns a configuration error and the
\* unchanged model, having created nothing and without calling Init; with
\* valid options, FPS = 0 among them, it returns no configuration error.
C20_ConfigValidated ==
  /\ BadOptions =>
       /\ runPc \in {"start", "error"}
       /\ runPc = "error" => runErr = "config"
       /\ resources = {}
       /\ ~initCalled
       /\ updates = <<>>
       /\ tasks = EmptyBag
  /\ ~BadOptions => runErr # "config"

\* Run has returned the configuration error for a negative FPS cap with
\* every other option valid
C20_Witness ==
  /\ runPc = "error"
  /\ runErr = "config"
  /\ options.fps < 0
  /\ options.width > 0 /\ options.height > 0 /\ options.fontSize > 0
  /\ options.title # "" /\ options.family # ""

\* the messages received from the channel have all been passed to Update
DrainedApplied ==
  \A i \in 1..Len(dequeued) : \E j \in DOMAIN updates : updates[j].seq = i

\* the commands Update returned are the commands Execute was given, but for
\* the one a call of handleMessage is about to execute
CommandsHanded ==
  \A c \in UpdCmds \ {NilCmd} :
    Cardinality({ j \in DOMAIN updates : updates[j].cmd = c })
      = CopiesIn(c, executed) + (IF hcmd = c THEN 1 ELSE 0)

\* C21: with FPS > 0, a tick that comes less than 1/FPS after the last
\* rendered frame takes the early return of the frame-rate cap: View has not
\* been called and nothing is rendered, yet every message the tick received
\* has been passed to Update and the commands returned have been executed.
C21_CappedTickAdvances ==
  [][ /\ rpc' = "capReturn" =>
           /\ options.fps > 0
           /\ lastRender = Rendered
           /\ view' = NoView
           /\ DrainedApplied'
           /\ CommandsHanded'
      /\ (rpc = "capReturn" /\ rpc' # rpc) =>
           /\ rpc' = "idle"
           /\ view' = NoView
           /\ UNCHANGED <<lastView, lastRender, updates, executed>> ]_vars

\* a capped tick that received a message whose Update returned a command
C21_Witness ==
  /\ rpc = "capReturn"
  /\ hadMessages
  /\ \E j \in DOMAIN updates :
       updates[j].seq = Len(dequeued) /\ updates[j].cmd # NilCmd

\* the tick in progress has processed a message: one it received from the
\* channel, or the pointer motion that was pending when it began
processedMessage == hadMessages \/ processedMotion

\* C22: past the frame-rate cap, a view equal to the last rendered one (a
\* frame having been rendered) is not rendered when the tick processed no
\* message, whatever the text is, and is rendered when the tick processed
\* one.
C22_UnchangedSkipped ==
  [][ (rpc = "render" /\ rpc' # rpc) =>
        /\ (lastRender = Rendered /\ view = lastView /\ ~processedMessage) =>
             rpc' = "skipReturn"
        /\ processedMessage => rpc' = "paint" ]_vars

\* the Update entries of pointer motions
MotionUpdates == { j \in DOMAIN updates : updates[j].msg = MotionMsg }

\* C23: a pointer motion never reaches the message channel; however many
\* motion events arrive between two ticks, the one pending motion holds the
\* cell of the most recent event; a tick passes the pending motion to
\* Update once, at its start, and clears it.
C23_MotionCoalesced ==
  [][ /\ \A i \in DOMAIN msgChan' : msgChan'[i] # MotionMsg
      /\ motions' # motions => UNCHANGED msgChan
      /\ motionPending' =>
           (motions' # <<>> /\ pendingMotion' = motions'[Len(motions')])
      /\ rpc' # "idle" => ~motionPending'
      /\ (rpc' = "motionUpdate" /\ rpc' # rpc) =>
           (rpc = "idle" /\ motionPending)
      /\ MotionUpdates' # MotionUpdates =>
           /\ rpc = "motionUpdate" /\ rpc' = "drain"
           /\ MotionUpdates' = MotionUpdates \cup {Len(updates')}
           /\ updates'[Len(updates')].cell = motions[Len(motions)] ]_vars

\* two motion events over different cells came between two ticks, and the
\* tick after them passed one motion, that of the second cell, to Update
C23_Witness ==
  /\ Len(motions) = 2
  /\ motions[1] # motions[2]
  /\ ~motionPending
  /\ Len(updates) = 1
  /\ updates[1].msg = MotionMsg
  /\ updates[1].cell = motions[2]

\* C24: an input handler of the event loop never waits for the message
\* channel: a handler that is sending can always complete its send.
C24_HandlersNeverBlock ==
  epc = "send" => Send(emsg, msgChan, ctxDone) # {}

\* the goroutine of timer k is running
TimerLive(k) ==
  \E r \in Live : r.id = k /\ r.pc \in {"loop", "tdeliver", "unregister", "stop"}

\* C25 (as claimed): once the own token of a timer or the root context has
\* been cancelled, the goroutine of the timer eventually exits, whatever it
\* was doing at that moment.
C25_TimerExits ==
  \A k \in 1..LiveTasks :
    (TimerLive(k) /\ (k \in timerCancelled \/ ctxDone)) ~> ~TimerLive(k)

\* Diff has compared two grids of the same dimensions
SameDims ==
  /\ diffPc = "done"
  /\ ~other.nil
  /\ tg.Width = other.Width
  /\ tg.Height = other.Height

\* region r covers the cell of column x in row y
Covers(r, x, y) ==
  /\ r.Y <= y /\ y < r.Y + r.Height
  /\ r.X <= x /\ x < r.X + r.Width

\* C26: for two grids of the same dimensions the regions of Diff cover the
\* cells in which the grids differ (in character, colors or any style
\* flag) and no other cell; every region is one row high and lies within
\* the grid, and no two regions of a row overlap or touch; identical grids
\* give no region.
C26_DiffCoversChanges ==
  SameDims =>
    /\ \A y \in 0..(tg.Height - 1), x \in 0..(tg.Width - 1) :
         (\E i \in DOMAIN regions : Covers(regions[i], x, y))
           <=> (tg.Cells[y][x] # other.Cells[y][x])
    /\ \A i \in DOMAIN regions :
         /\ regions[i].Height = 1
         /\ regions[i].Width >= 1
         /\ regions[i].X >= 0
         /\ regions[i].X + regions[i].Width <= tg.Width
         /\ regions[i].Y \in 0..(tg.Height - 1)
    /\ \A i, j \in DOMAIN regions :
         (i < j /\ regions[i].Y = regions[j].Y) =>
           regions[i].X + regions[i].Width < regions[j].X
    /\ tg.Cells = other.Cells => regions = <<>>

\* a row with two separate runs of changed cells, one of them differing in
\* the strikethrough flag only
C26_Witness ==
  /\ SameDims
  /\ \E i, j \in DOMAIN regions : i < j /\ regions[i].Y = regions[j].Y
  /\ \E y \in 0..(tg.Height - 1), x \in 0..(tg.Width - 1) :
       /\ tg.Cells[y][x] # other.Cells[y][x]
       /\ cellsEqual_NoStrike(tg.Cells[y][x], other.Cells[y][x])

\* C27: when the other grid is nil or differs in width or height, Diff
\* returns the one region {0, 0, width, height} of the receiving grid,
\* whatever the cells hold.
C27_FullInvalidation ==
  (diffPc = "done" /\ ~SameDims) =>
    regions = <<[X |-> 0, Y |-> 0, Width |-> tg.Width, Height |-> tg.Height]>>

\* grids of different heights whose cells are not all equal were compared
C27_Witness ==
  /\ diffPc = "done"
  /\ ~other.nil
  /\ tg.Height # other.Height
  /\ tg.Height > 1
  /\ tg.Cells[0][0] # other.Cells[0][0]
  /\ Len(regions) = 1

\* the grid of the parser has the size ParseANSI was given
GridShape ==
  /\ parser.grid.Width = size[1]
  /\ parser.grid.Height = size[2]
  /\ DOMAIN parser.grid.Cells = 0..(size[2] - 1)
  /\ \A y \in 0..(size[2] - 1) : DOMAIN parser.grid.Cells[y] = 0..(size[1] - 1)

\* C28 (as claimed): for every string and every positive size ParseANSI
\* runs to its end without a panic, and the grid keeps its width and height.
\* The panics counted here are the index out of range of an erase below the
\* grid and of a write or an erase at a cursor that int arithmetic has
\* wrapped to a negative row or column, which every build raises; the slice
\* behind the end of the string (sliceFault) depends on the capacity of the
\* slice and is left aside.
C28_ParseNeverFaults ==
  /\ parsePc # "fault"
  /\ parsePc \in {"parsing", "done"} /\ ~parser.nil => GridShape

\* no control character and no ESC
Plain(rs) == \A i \in DOMAIN rs : rs[i] \notin {ESC, LF, CR, TAB}

\* C29: a string without control characters and escape sequences that is
\* shorter than the grid is wide puts its i-th character into column i of
\* row 0, with default colors and no style, and leaves every other cell the
\* default blank cell.
C29_PlainText ==
  (parsePc = "done" /\ ~parser.nil /\ Plain(runes) /\ Len(runes) < size[1]) =>
    \A y \in 0..(size[2] - 1), x \in 0..(size[1] - 1) :
      parser.grid.Cells[y][x] =
        [ Rune |-> IF y = 0 /\ x < Len(runes) THEN runes[x + 1] ELSE " ",
          FgColor |-> [R |-> 0, G |-> 0, B |-> 0, IsDefault |-> TRUE],
          BgColor |-> [R |-> 0, G |-> 0, B |-> 0, IsDefault |-> TRUE],
          Bold |-> FALSE, Italic |-> FALSE, Underline |-> FALSE,
          Strikethrough |-> FALSE ]

\* a string of two different characters has been parsed into the grid
C29_Witness ==
  /\ parsePc = "done"
  /\ ~parser.nil
  /\ Plain(runes)
  /\ Len(runes) = 2
  /\ runes[1] # runes[2]
  /\ Len(runes) < size[1]
  /\ parser.grid.Cells[0][1].Rune = runes[2]

\* the parameters and command of the escape sequence the parser is at, <<>>
\* when it is at none
SeqAt ==
  IF /\ ri + 1 <= Len(runes)
     /\ runes[ri] = ESC
     /\ runes[ri + 1] = "["
     /\ findSequenceEnd(runes, ri + 2) <= Len(runes)
  THEN SubSeq(runes, ri + 2, findSequenceEnd(runes, ri + 2))
  ELSE <<>>

\* the first eight entries of the 16-color table
Palette8 ==
  << [R |-> 0, G |-> 0, B |-> 0, IsDefault |-> FALSE],
     [R |-> 128, G |-> 0, B |-> 0, IsDefault |-> FALSE],
     [R |-> 0, G |-> 128, B |-> 0, IsDefault |-> FALSE],
     [R |-> 128, G |-> 128, B |-> 0, IsDefault |-> FALSE],
     [R |-> 0, G |-> 0, B |-> 128, IsDefault |-> FALSE],
     [R |-> 128, G |-> 0, B |-> 128, IsDefault |-> FALSE],
     [R |-> 0, G |-> 128, B |-> 128, IsDefault |-> FALSE],
     [R |-> 192, G |-> 192, B |-> 192, IsDefault |-> FALSE] >>

\* the digits 0 to 7 as characters
Digits8 == <<"0", "1", "2", "3", "4", "5", "6", "7">>

\* C30: ESC[3Xm with X in 0..7 sets the foreground to entry X of the color
\* table, which is not a default color (31 gives RGB (128,0,0)); ESC[0m sets
\* both colors to the default and all four styles off; a character written
\* into the grid takes the colors and styles the parser has at that moment.
C30_SgrApplied ==
  [][ (parsePc = "parsing" /\ parsePc' = "parsing" /\ ri' # ri) =>
        /\ \A d \in 1..8 :
             SeqAt = <<"3", Digits8[d], "m">> => parser'.fgColor = Palette8[d]
        /\ SeqAt = <<"0", "m">> =>
             /\ parser'.fgColor = [R |-> 0, G |-> 0, B |-> 0, IsDefault |-> TRUE]
             /\ parser'.bgColor = [R |-> 0, G |-> 0, B |-> 0, IsDefault |-> TRUE]
             /\ ~parser'.bold /\ ~parser'.italic
             /\ ~parser'.underline /\ ~parser'.strikethrough
        /\ ( /\ SeqAt = <<>>
             /\ Plain(<<runes[ri]>>)
             /\ Clamp64(parser.cursorX) \in 0..(size[1] - 1)
             /\ Clamp64(parser.cursorY) \in 0..(size[2] - 1) ) =>
             parser'.grid.Cells[Clamp64(parser.cursorY)][Clamp64(parser.cursorX)] =
               [ Rune |-> runes[ri], FgColor |-> parser.fgColor,
                 BgColor |-> parser.bgColor, Bold |-> parser.bold,
                 Italic |-> parser.italic, Underline |-> parser.underline,
                 Strikethrough |-> parser.strikethrough ] ]_vars

\* ESC[31m, a character, ESC[0m has been parsed: the character is red and
\* the parser is back to the defaults
C30_Witness ==
  /\ parsePc = "done"
  /\ runes = <<ESC, "[", "3", "1", "m", "R", ESC, "[", "0", "m">>
  /\ parser.grid.Cells[0][0].Rune = "R"
  /\ parser.grid.Cells[0][0].FgColor = [R |-> 128, G |-> 0, B |-> 0, IsDefault |-> FALSE]
  /\ parser.fgColor.IsDefault

\* the parser is at a character that is not the start of an escape sequence
AtRegular ==
  /\ parsePc = "parsing"
  /\ ri <= Len(runes)
  /\ ~(runes[ri] = ESC /\ ri + 1 <= Len(runes) /\ runes[ri + 1] = "[")

\* b is a number above a: a sum a + n with a positive n that has wrapped
\* around is not
Above(a, b) == ~(~Negative64(a) /\ Negative64(b))

\* the column a regular character moves the cursor to, before wrapping
ColumnAfter(ch, x) ==
  CASE ch = LF -> Int64(0)
    [] ch = CR -> Int64(0)
    [] ch = TAB -> Add64(x, Int64(8 - (x[1] % 8)))
    [] OTHER -> Add64(x, Int64(1))

\* C31 (as claimed): a newline moves the cursor to column 0 of the next row,
\* a carriage return to column 0 of its row, a tab to the next multiple of
\* 8, any other character one column on; a column that has reached the
\* width after the character wraps to column 0 of the next row; and a text
\* without control characters that fits the grid is found in it row after
\* row, no character lost at the end of a row.  The next row and the next
\* column are those of the numbers: a cursor that falls from the largest
\* int to the smallest has not moved on, and a character at which parse
\* panics has moved nothing.
C31_CursorRule ==
  /\ [][ (AtRegular /\ ri' # ri) =>
           LET x == ColumnAfter(runes[ri], parser.cursorX)
               y == IF runes[ri] = LF THEN Add64(parser.cursorY, Int64(1))
                    ELSE parser.cursorY
               wrapped == Add64(y, Int64(1))
           IN  /\ Above(parser.cursorX, x) \/ runes[ri] \in {LF, CR}
               /\ Above(parser.cursorY, y)
               /\ IF Clamp64(x) >= size[1]
                  THEN /\ parser'.cursorX = Int64(0)
                       /\ parser'.cursorY = wrapped
                       /\ Above(y, wrapped)
                  ELSE parser'.cursorX = x /\ parser'.cursorY = y ]_vars
  /\ [] ( (parsePc = "done" /\ ~parser.nil /\ Plain(runes)
           /\ Len(runes) <= size[1] * size[2]) =>
            \A y \in 0..(size[2] - 1), x \in 0..(size[1] - 1) :
              parser.grid.Cells[y][x].Rune =
                IF y * size[1] + x + 1 <= Len(runes)
                THEN runes[y * size[1] + x + 1] ELSE " " )

\* the parser is at ESC [ and no letter follows up to the end of the input
AtUnterminated ==
  /\ parsePc = "parsing"
  /\ ri + 1 <= Len(runes)
  /\ runes[ri] = ESC
  /\ runes[ri + 1] = "["
  /\ \A j \in (ri + 2)..Len(runes) : runes[j] \notin Letters

\* C32 (as claimed): an escape sequence the input ends in is discarded as a
\* whole: the parser passes over the rest of the input without a change to
\* the grid, the cursor, the colors or the styles.  (The panic of the slice
\* behind the end of the string, sliceFault, is left aside here.)
C32_UnterminatedDiscarded ==
  [][ (AtUnterminated /\ ri' # ri /\ parsePc' # "sliceFault") =>
        /\ parsePc' = "parsing"
        /\ ri' > Len(runes)
        /\ parser' = parser ]_vars

\* C33 (as claimed): runes typed into a focused text input are inserted at
\* the cursor: the value becomes the text before the cursor, the typed runes
\* (as many as CharLimit leaves room for), and the text after the cursor,
\* and the cursor is just behind the inserted runes.
C33_InsertAtCursor ==
  [][ (~ti.nil /\ ti'.keys # ti.keys /\ ti'.msg.Type = "runes" /\ ti.focus) =>
        LET typed == IF ti.CharLimit > 0 /\ ti.CharLimit - Len(ti.value) <= 0
                     THEN <<>> ELSE limited(ti, ti'.msg.Runes)
        IN  /\ ti'.value = SubSeq(ti.value, 1, ti.pos) \o typed \o
                           SubSeq(ti.value, ti.pos + 1, Len(ti.value))
            /\ ti'.pos = ti.pos + Len(typed) ]_vars

\* the tickers a goroutine inside startTimer has registered without having
\* started the timer goroutine yet (between ce.mu.Unlock() and go func())
TimerStarting ==
  { r.id : r \in { q \in Live : q.pc = "timerGo" } }

\* the tickers whose timer goroutine is in its loop or in its deferred
\* delete, which has not yet removed the ticker
TimerLooping ==
  { r.id : r \in { q \in Live : q.pc \in {"loop", "tdeliver", "unregister"} } }

\* the tickers whose timer goroutine is running, up to its wg.Done()
TimerRunning == { k \in 1..tickers : TimerLive(k) }

\* C34 as the specification states it: as long as the process has not
\* crashed, the registry holds exactly the tickers whose timer task is
\* running, so it is empty whenever no timer task is running.
C34_RegistryMatchesTasks ==
  ~crashed => /\ timers = TimerRunning
              /\ (TimerRunning = {} => timers = {})

\* C34: as long as the process has not crashed, the registry holds a ticker
\* from its registration by startTimer, which comes before the timer
\* goroutine is started, to the deferred delete of that goroutine, which
\* comes before its ticker.Stop() and wg.Done(): it holds the tickers being
\* started and those of the running timer goroutines that have not yet
\* deleted theirs, and nothing else.  A timer goroutine starts with its
\* ticker registered and ends with it removed; the registry is empty
\* whenever no goroutine of the executor is running and when Shutdown has
\* returned; it changes only in a step that takes the free mutex, and
\* Shutdown reads it while holding the mutex.
C34_RegistryFromStartToDelete ==
  /\ [] (~crashed => /\ timers = TimerStarting \cup TimerLooping
                     /\ TimerStarting \cap TimerRunning = {}
                     /\ TimerRunning \ timers =
                          { r.id : r \in { q \in Live : q.pc = "stop" } }
                     /\ (wg = 0 => timers = {}))
  /\ [][ /\ timers' # timers => mu = 0
         /\ timerCancelled' # timerCancelled => mu = ShutdownHolder
         /\ (shutdown' = "returned" /\ shutdown # "returned") => timers' = {}
         /\ \A k \in 1..tickers :
              /\ (~TimerLive(k) /\ TimerLive(k)') => k \in timers
              /\ (TimerLive(k) /\ ~TimerLive(k)') => k \notin timers ]_vars

\* Shutdown has returned after a timer was registered, cancelled by it and
\* removed by its goroutine
C34_Witness ==
  /\ shutdown = "returned"
  /\ ~crashed
  /\ ~ctxDone
  /\ tickers >= 1
  /\ timerCancelled # {}
  /\ timers = {}

\* C35: when Run returns after a successful start, Shutdown of the executor
\* has returned and no goroutine of a command or of a timer is running (no
\* ticker is registered any more, the WaitGroup is at 0); the widget, the
\* window and the display are destroyed only after Shutdown has returned.
C35_ShutdownBeforeReturn ==
  /\ [] ( (runPc = "returned" /\ runErr = "none" /\ ~crashed) =>
            /\ shutdown = "returned"
            /\ Live = {}
            /\ TimerRunning = {}
            /\ timers = {}
            /\ wg = 0 )
  /\ [][ ("executor" \in resources /\ resources' # resources) =>
           /\ shutdown = "returned"
           /\ Live = {}
           /\ timers = {}
           /\ resources' = {} ]_vars

\* Run has returned without an error after the program started a recurring
\* timer whose goroutine delivered a tick that Update was called with
C35_Witness ==
  /\ runPc = "returned"
  /\ runErr = "none"
  /\ ~crashed
  /\ \E c \in BagToSet(executed) : c.kind = "every"
  /\ tickers >= 1
  /\ \E j \in DOMAIN updates : updates[j].msg = TickMsg
  /\ shutdown = "returned"
  /\ resources = {}

\* C36: a tick that cannot render (no surface, no grid, a Render error)
\* skips only that frame: the failed attempt (the only way into
\* "renderFailed") and the return that follows it
\* leave the stored last view and last render time unchanged, do not request
\* termination, and keep the Update results of the tick; the return
\* unlocks the program, so that the loop goes on with the next tick.
C36_RenderFaultSkipsFrame ==
  [][ /\ (rpc = "paint" /\ rpc' = "renderFailed") =>
           /\ UNCHANGED <<lastView, lastRender>>
           /\ UNCHANGED <<ctxDone, displayExit, crashed>>
           /\ UNCHANGED <<updates, executed>>
      /\ (rpc = "renderFailed" /\ rpc' # rpc) =>
           /\ rpc' = "idle"
           /\ pmu' = Unlocked
           /\ UNCHANGED <<lastView, lastRender>>
           /\ UNCHANGED <<ctxDone, displayExit, crashed>>
           /\ UNCHANGED <<updates, executed>> ]_vars

\* a frame failed to render in a tick whose Update changed the model, with
\* an earlier frame stored and a view that differs from it
C36_Witness ==
  /\ rpc = "renderFailed"
  /\ lastRender = Rendered
  /\ view # lastView
  /\ ~ctxDone
  /\ \E j \in DOMAIN updates :
       updates[j].seq = Len(dequeued) /\ updates[j].ok

\* the quit signals: the message of the Quit command and the exported type
QuitSignals == { quitMsg, QuitMsg }

\* C37: every quit signal terminates the program when the tick dequeues
\* it, the message of the Quit command and a QuitMsg value sent with Send
\* alike: the dequeuing step cancels the context, asks the display to exit
\* and ends the tick, and no quit signal is ever passed to Update.
C37_QuitSignalsTerminate ==
  /\ [] (\A j \in DOMAIN updates : updates[j].msg \notin QuitSignals)
  /\ [][ (dequeued' # dequeued /\ Head(msgChan) \in QuitSignals) =>
           /\ ctxDone'
           /\ displayExit'
           /\ rpc' = "idle" ]_vars

\* the snapshot the last returned Update call left, InitialModel when none
\* has returned
RECURSIVE LastReturned(_)
LastReturned(us) ==
  IF us = <<>> THEN InitialModel
  ELSE IF us[Len(us)].ok THEN Len(us)
  ELSE LastReturned(SubSeq(us, 1, Len(us) - 1))

\* C38: when Update faults on a message the stored model is exactly the
\* one from before that call, and no command is executed for that message:
\* the step of a faulting Update call changes neither Program.model nor
\* the goroutines of the executor, and at all times the stored model is the
\* snapshot returned by the last Update call that returned.
C38_FaultKeepsModel ==
  /\ [] (model = LastReturned(updates))
  /\ [][ (updates' # updates /\ ~updates'[Len(updates')].ok) =>
           /\ model' = model
           /\ UNCHANGED <<executed, tasks, wg>> ]_vars

\* an Update call of the tick has faulted after an earlier call had
\* replaced the model, and the loop goes on
C38_Witness ==
  /\ rpc = "process"
  /\ updates # <<>>
  /\ ~updates[Len(updates)].ok
  /\ model # InitialModel
  /\ executed # EmptyBag

\* the internal markers of Batch and Every
Markers == { batchMsg, everyMsg }

\* C39: the executor never places an internal marker on the message
\* channel, whether a command body or the function of a recurring timer
\* returned it.
C39_NoMarkerOnChannel ==
  \A i \in DOMAIN msgChan : msgChan[i] \notin Markers

\* C40: a tick that applied a message to Update (one from the channel or
\* the pending pointer motion) and skipped rendering because of the
\* frame-rate cap requests a further redraw itself: when it returns (no
\* Update call of the tick having faulted and the program not being about
\* to end), the window has a redraw requested, so that the view of the new
\* state is rendered without any further message or input event.
C40_CappedTickRequestsRedraw ==
  [][ (/\ rpc = "capReturn"
       /\ processedMessage
       /\ ~tickFault
       /\ ~displayExit
       /\ rpc' = "idle") => redrawNeeded' ]_vars

====
